---- MODULE Spec2Model ----
(***************************************************************************)
(* Model of the clan registration bot: the registration conversation       *)
(* (bot/handlers/registration.py, bot/handlers/common.py), the             *)
(* administrative handlers (bot/handlers/admin.py, decorators.py) and the  *)
(* repository over the two tables players / pending_registrations          *)
(* (database/repository.py, database/database.py, database/models.py).     *)
(*                                                                         *)
(* Every handler invocation is a task.  A task runs one block of code at a *)
(* time; a block ends where the coroutine really suspends (a database      *)
(* round trip, a Telegram API call, a file download).  Calls on the        *)
(* in-memory FSM storage never suspend, so they belong to the block they   *)
(* are written in.  Tasks of different updates interleave block by block.  *)
(*                                                                         *)
(* Strings are modelled as tuples of tokens, so that strip(), startswith() *)
(* and len() are computed and not assumed.                                 *)
(***************************************************************************)
EXTENDS Integers, Sequences, FiniteSets, Bags, TLC

VARIABLES
    players,                \* committed rows of table players
    pending_registrations,  \* committed rows of table pending_registrations
    fsm_state,              \* FSM storage: state per user
    fsm_data,               \* FSM storage: data["nickname"] per user (<<>>: absent)
    tasks,                  \* bag of handler invocations in flight
    done,                   \* the invocation that ended in the last step
    notifications,          \* bag of bot.send_photo / bot.send_message calls to
                            \* another chat, <<to, kind, about>>
    events,                 \* number of updates dispatched so far
    accepted_nickname,      \* history: per user, the nickname process_nickname
                            \* accepted last since the user's last started
                            \* /register, effective /cancel or submission
    rate_limit,             \* RateLimitMiddleware.rate_limit
    time_window,            \* RateLimitMiddleware.time_window, in seconds
    user_timestamps,        \* RateLimitMiddleware.user_timestamps, in ticks
    clock,                  \* time.time(), in ticks
    mw,                     \* the middleware call made in the last step
    admitted,               \* per user, the times of the last admitted messages
    owed                    \* per user, the times "denial + retry_after" of the
                            \* denials since the last admitted message

handler_vars == <<players, pending_registrations, fsm_state, fsm_data, tasks, done,
                  notifications, events, accepted_nickname>>

limiter_vars == <<rate_limit, time_window, user_timestamps, clock, mw, admitted, owed>>

vars == <<players, pending_registrations, fsm_state, fsm_data, tasks, done,
          notifications, events,
          rate_limit, time_window, user_timestamps, clock, mw, admitted, owed>>

(***************************************************************************)
(* Bounds of the model.                                                    *)
(***************************************************************************)
MaxEvents == 5
MaxInFlight == 2
\* Resolution and horizon of the clock of the rate limiter.
TicksPerSecond == 2
MaxClock == 5
\* The largest rate_limit a middleware is constructed with.
MaxRateLimit == 2

(***************************************************************************)
(* Configuration and inputs.                                               *)
(***************************************************************************)
\* settings.telegram.leader_telegram_id: the single privileged user.
leader_telegram_id == 1

\* Telegram user ids that send updates; user 1 is the leader.
Actors == {1, 2}

\* from_user.username; <<>> stands for None (user 2 has no username).
TelegramUsername(a) == IF a = 1 THEN <<"admin">> ELSE <<>>

\* Seconds at which datetime.now() may be read.
Timestamps == {1, 2}

\* Texts a user may send in the nickname step (tuples of characters).
LongText == [i \in 1..16 |-> "x"]
Texts == { <<"R">>, <<" ", "W", " ">>, <<" ">>, LongText }

\* Reasons the leader may give to /exclude.
Reasons == { <<"rule">> }

\* Status values (database/models.py: "Активен", repository.py: "Отчислен").
STATUS_ACTIVE == "Aktiven"
STATUS_EXCLUDED == "Otchislen"

\* FSM states (bot/states/registration.py); "None" is the cleared state.
NoState == "None"
RegistrationStates == {"waiting_for_captcha", "waiting_for_nickname", "waiting_for_screenshot"}

NULL == <<>>

(***************************************************************************)
(* Small string helpers: str.strip(), str.startswith('@').                 *)
(***************************************************************************)
RECURSIVE lstrip(_)
lstrip(s) == IF s # <<>> /\ Head(s) = " " THEN lstrip(Tail(s)) ELSE s

RECURSIVE rstrip(_)
rstrip(s) == IF s # <<>> /\ s[Len(s)] = " " THEN rstrip(SubSeq(s, 1, Len(s) - 1)) ELSE s

\* The text as it is, blanks included.
unstripped(s) == s

\* str.strip()
strip(s) == rstrip(lstrip(s))

startswith_at(s) == s # <<>> /\ Head(s) = "@"

\* str(user.id)
IdText(a) == CASE a = 1 -> "1" [] a = 2 -> "2" [] a = 3 -> "3" [] OTHER -> "n"

(***************************************************************************)
(* utils/validators.py                                                     *)
(***************************************************************************)
MaxNicknameLen == 15

\* A validation that accepts every text.
validate_nickname_any(nickname) == ""

\* validate_nickname: "" is valid, otherwise the error that is returned.
validate_nickname(nickname) ==
    IF nickname = <<>> \/ strip(nickname) = <<>> THEN "empty"
    ELSE IF Len(strip(nickname)) < 1 THEN "empty"
    ELSE IF Len(strip(nickname)) > MaxNicknameLen THEN "too_long"
    ELSE ""

normalize_username(username) ==
    IF ~startswith_at(strip(username)) THEN <<"@">> \o strip(username) ELSE strip(username)

(***************************************************************************)
(* models/player.py (dataclasses) and database/models.py (tables).         *)
(***************************************************************************)
\* The fields that test_repository.py expects the Player dataclass to have.
PlayerFieldsWithExclusion ==
    {"telegram_id", "username", "nickname", "screenshot_path",
     "registration_date", "status", "added_by",
     "exclusion_date", "exclusion_reason", "excluded_by", "notes"}

\* Fields the dataclass Player accepts in its constructor.
PlayerDataclassFields ==
    {"telegram_id", "username", "nickname", "screenshot_path",
     "registration_date", "status", "added_by", "notes"}

\* Fields the dataclass PendingRegistration accepts.
PendingDataclassFields ==
    {"telegram_id", "username", "nickname", "screenshot_path", "timestamp"}

\* Keyword arguments PlayerRepository._to_dataclass passes to Player(...).
ToDataclassKwargs ==
    {"telegram_id", "username", "nickname", "screenshot_path",
     "registration_date", "status", "added_by",
     "exclusion_date", "exclusion_reason", "excluded_by", "notes"}

\* Keyword arguments PlayerRepository._pending_to_dataclass passes.
PendingToDataclassKwargs ==
    {"telegram_id", "username", "nickname", "screenshot_path", "timestamp"}

\* A dataclass constructor raises TypeError on an unexpected keyword argument.
ConstructorRaises(kwargs, fields) == ~(kwargs \subseteq fields)

\* PlayerRepository._to_dataclass: the exception raised ("" when none).
to_dataclass ==
    IF ConstructorRaises(ToDataclassKwargs, PlayerDataclassFields) THEN "TypeError" ELSE ""

\* PlayerRepository._pending_to_dataclass: the exception raised ("" when none).
pending_to_dataclass ==
    IF ConstructorRaises(PendingToDataclassKwargs, PendingDataclassFields)
    THEN "TypeError" ELSE ""

\* A row of table players (database/models.py, class Player).
PlayerRow(id, username, nickname, path, status, added_by, notes) ==
    [telegram_id |-> id, username |-> username, nickname |-> nickname,
     screenshot_path |-> path, status |-> status, added_by |-> added_by,
     notes |-> notes,
     exclusion_date |-> NULL, exclusion_reason |-> NULL, excluded_by |-> NULL]

\* A row of table pending_registrations (class PendingRegistration).
PendingRow(id, username, nickname, path) ==
    [telegram_id |-> id, username |-> username, nickname |-> nickname,
     screenshot_path |-> path]

(***************************************************************************)
(* Handler invocations (tasks).  A task carries the handler's local        *)
(* variables and the uncommitted writes of its database session.           *)
(***************************************************************************)
NoCmd == [n |-> 0, handle |-> <<>>, reason |-> <<>>]

NewTask(handler, user, target, cmd) ==
    [handler |-> handler, user |-> user, target |-> target, cmd |-> cmd,
     pc |-> "start",
     text |-> <<>>,           \* message.text
     nickname |-> <<>>,       \* local nickname
     local_path |-> <<>>,     \* local local_path
     pending |-> {},          \* local pending (the row read), {} for None
     player |-> {},           \* local player (cmd_exclude), {} for None
     ins_pending |-> {},      \* session: flushed, uncommitted INSERTs
     del_pending |-> {},      \* session: flushed, uncommitted DELETEs
     ins_player |-> {},
     upd_player |-> {},       \* session: uncommitted UPDATEs, <<old, new>>
     sent |-> <<>>]           \* messages this invocation has sent, <<to, kind, delivered>>

NoDone ==
    [handler |-> "none", user |-> 0, target |-> 0, cmd |-> NoCmd, result |-> "",
     text |-> <<>>, nickname |-> <<>>, pending |-> {}, player |-> {}, sent |-> <<>>]

Running == BagToSet(tasks)

(***************************************************************************)
(* database/database.py: Database.get_session.  The session sees the       *)
(* committed rows and its own flushed writes; commit() runs only when the  *)
(* body of "async for session in db.get_session()" runs to its end, and a  *)
(* return or an exception inside the body closes the session without       *)
(* commit (the flushed writes are rolled back).                            *)
(***************************************************************************)
PendingView(t) == (pending_registrations \ t.del_pending) \cup t.ins_pending

\* A flush that deletes the rows it was to update.
FlushDeleting(rows, writes) == rows \ {w[1] : w \in writes}

\* session.flush() of changed attributes: an UPDATE of each changed row,
\* writes being the pairs <<row as read, row as changed>>.
FlushUpdates(rows, writes) ==
    (rows \ {w[1] : w \in writes}) \cup {w[2] : w \in writes}

PlayersView(t) == FlushUpdates(players, t.upd_player) \cup t.ins_player

\* session.rollback(): the writes of the session are dropped.
RollbackPending(t) == pending_registrations

\* A return that commits what the session has flushed.
CommittedOnReturn(committed, flushed) == committed \cup flushed

\* The handler returns from inside the loop over get_session: the session
\* ends without commit, and the rows it has flushed are not persisted.
Abandoned(committed, flushed) == committed

\* session.commit() of get_session: the flushed writes become the committed rows.
CommitPending(t) == (pending_registrations \ t.del_pending) \cup t.ins_pending

CommitPlayers(t) == PlayersView(t)

\* The session is closed: nothing of it is left.
CloseSession(t) ==
    [t EXCEPT !.ins_pending = {}, !.del_pending = {}, !.ins_player = {}, !.upd_player = {}]

\* Another open session holds an uncommitted write on the row of this key:
\* the database makes a write of the same key wait for that session to end.
PendingLocked(t, id) ==
    \E u \in Running \ {t} :
        \E r \in u.ins_pending \cup u.del_pending : r.telegram_id = id

PlayerLocked(t, id) ==
    \E u \in Running \ {t} :
        \/ \E r \in u.ins_player : r.telegram_id = id
        \/ \E w \in u.upd_player : w[1].telegram_id = id

(***************************************************************************)
(* database/repository.py: PlayerRepository.  Each operation returns       *)
(* [exc, ...]: exc is the exception raised ("" when none).                 *)
(***************************************************************************)
\* get_player: select by telegram_id, then _to_dataclass of the row found.
get_player(view, telegram_id) ==
    LET rows == {r \in view : r.telegram_id = telegram_id}
    IN  IF rows = {} THEN [exc |-> "", rows |-> {}]
        ELSE [exc |-> to_dataclass, rows |-> IF to_dataclass = "" THEN rows ELSE {}]

\* A check that looks at the active rows only.
check_active_player_exists(view, telegram_id) ==
    [exc |-> "", value |-> \E p \in view : /\ p.telegram_id = telegram_id
                                           /\ p.status = STATUS_ACTIVE]

\* check_player_exists: get_player(...) is not None.
check_player_exists(view, telegram_id) ==
    LET r == get_player(view, telegram_id)
    IN  [exc |-> r.exc, value |-> r.exc = "" /\ r.rows # {}]

\* get_all_players: _to_dataclass of every row.
get_all_players(view) ==
    IF view = {} THEN [exc |-> "", rows |-> {}]
    ELSE [exc |-> to_dataclass, rows |-> IF to_dataclass = "" THEN view ELSE {}]

\* add_player: INSERT and flush (the unique constraint on telegram_id), then
\* _to_dataclass of the new row.  rows are the rows flushed into the session.
add_player(view, player) ==
    IF \E r \in view : r.telegram_id = player.telegram_id
    THEN [exc |-> "IntegrityError", rows |-> {}]
    ELSE [exc |-> to_dataclass, rows |-> {player}]

\* exclude_player: the UPDATE of the row found, as <<old, new>>; value is the
\* boolean returned.
exclude_player(view, telegram_id, reason, excluded_by, now) ==
    LET rows == {r \in view : r.telegram_id = telegram_id}
    IN  [exc |-> "",
         value |-> rows # {},
         writes |-> {<<r, [r EXCEPT !.status = STATUS_EXCLUDED,
                                    !.exclusion_date = <<now>>,
                                    !.exclusion_reason = reason,
                                    !.excluded_by = excluded_by]>> : r \in rows}]

\* update_player_status: the UPDATE of the row found.
update_player_status(view, telegram_id, status) ==
    LET rows == {r \in view : r.telegram_id = telegram_id}
    IN  [exc |-> "",
         value |-> rows # {},
         writes |-> {<<r, [r EXCEPT !.status = status]>> : r \in rows}]

\* save_pending on a table without the unique constraint on telegram_id.
save_pending_unchecked(view, pending) ==
    [exc |-> pending_to_dataclass, rows |-> {pending}]

\* save_pending: INSERT and flush (unique constraint), then _pending_to_dataclass.
save_pending(view, pending) ==
    IF \E r \in view : r.telegram_id = pending.telegram_id
    THEN [exc |-> "IntegrityError", rows |-> {}]
    ELSE [exc |-> pending_to_dataclass, rows |-> {pending}]

\* get_pending that finds no row.
get_pending_none(view, telegram_id) == [exc |-> "", rows |-> {}]

\* get_pending whose SELECT has no WHERE clause.
get_pending_any(view, telegram_id) ==
    IF view = {} THEN [exc |-> "", rows |-> {}]
    ELSE [exc |-> pending_to_dataclass, rows |-> view]

\* get_pending: select by telegram_id; rows is {} for None.
get_pending(view, telegram_id) ==
    LET rows == {r \in view : r.telegram_id = telegram_id}
    IN  IF rows = {} THEN [exc |-> "", rows |-> {}]
        ELSE [exc |-> pending_to_dataclass, rows |-> rows]

\* remove_pending that deletes nothing.
remove_pending_noop(view, telegram_id) == [exc |-> "", value |-> FALSE, rows |-> {}]

\* remove_pending: DELETE of the row found; value is the boolean returned.
remove_pending(view, telegram_id) ==
    LET rows == {r \in view : r.telegram_id = telegram_id}
    IN  [exc |-> "", value |-> rows # {}, rows |-> rows]

\* get_all_pending
get_all_pending(view) ==
    IF view = {} THEN [exc |-> "", rows |-> {}]
    ELSE [exc |-> pending_to_dataclass, rows |-> view]

(***************************************************************************)
(* bot/middleware/rate_limit.py: RateLimitMiddleware.  Times are counted   *)
(* in ticks, TicksPerSecond of them to a second, so that time.time() has   *)
(* a fractional part and int() truncates it.                               *)
(***************************************************************************)
\* int(x / TicksPerSecond) for x in ticks: truncation towards zero.
int_seconds(x) ==
    IF x >= 0 THEN x \div TicksPerSecond ELSE -((-x) \div TicksPerSecond)

\* A cleanup that keeps the timestamp that is exactly one window old.
cleanup_keeping_boundary(timestamps, window, current_time) ==
    SelectSeq(timestamps, LAMBDA ts : ts >= current_time - window * TicksPerSecond)

\* _cleanup_old_timestamps: keep ts > current_time - time_window.
cleanup_old_timestamps(timestamps, window, current_time) ==
    SelectSeq(timestamps, LAMBDA ts : ts > current_time - window * TicksPerSecond)

min(timestamps) ==
    CHOOSE m \in {timestamps[i] : i \in DOMAIN timestamps} :
        \A i \in DOMAIN timestamps : m <= timestamps[i]

\* seconds_until_reset without the "+ 1".
seconds_until_reset_floor(window, current_time, oldest_timestamp) ==
    int_seconds(window * TicksPerSecond - (current_time - oldest_timestamp))

\* The seconds since the oldest timestamp, plus one: the window is forgotten.
seconds_since_oldest(window, current_time, oldest_timestamp) ==
    int_seconds(current_time - oldest_timestamp) + 1

\* int(self.time_window - (current_time - oldest_timestamp)) + 1
seconds_until_reset(window, current_time, oldest_timestamp) ==
    int_seconds(window * TicksPerSecond - (current_time - oldest_timestamp)) + 1

\* _is_rate_limited that also records the request it refuses.
is_rate_limited_recording(timestamps, limit, window, current_time) ==
    LET kept == cleanup_old_timestamps(timestamps, window, current_time)
    IN  IF Len(kept) >= limit
        THEN IF kept = <<>>
             THEN [exc |-> "ValueError", is_limited |-> FALSE, seconds |-> 0,
                   timestamps |-> kept]
             ELSE [exc |-> "", is_limited |-> TRUE,
                   seconds |-> seconds_until_reset(window, current_time, min(kept)),
                   timestamps |-> Append(kept, current_time)]
        ELSE [exc |-> "", is_limited |-> FALSE, seconds |-> 0, timestamps |-> kept]

\* _is_rate_limited: the tuple returned and the list left by the cleanup;
\* min() of an empty list raises ValueError.
is_rate_limited(timestamps, limit, window, current_time) ==
    LET kept == cleanup_old_timestamps(timestamps, window, current_time)
    IN  IF Len(kept) >= limit
        THEN IF kept = <<>>
             THEN [exc |-> "ValueError", is_limited |-> FALSE, seconds |-> 0,
                   timestamps |-> kept]
             ELSE [exc |-> "", is_limited |-> TRUE,
                   seconds |-> seconds_until_reset(window, current_time, min(kept)),
                   timestamps |-> kept]
        ELSE [exc |-> "", is_limited |-> FALSE, seconds |-> 0, timestamps |-> kept]

\* _record_request: append time.time(), read again after the check.
record_request(timestamps, later) == Append(timestamps, later)

\* A storage with one list for all users.
shared_timestamps(user_id, timestamps) == [u \in Actors |-> timestamps]

\* self.user_timestamps[user_id] = ... : the storage is keyed by user id.
set_timestamps(user_id, timestamps) ==
    [user_timestamps EXCEPT ![user_id] = timestamps]

\* Kinds of events handed to the middleware.
EventKinds == {"message", "message_without_user", "callback_query"}

\* __call__ passes every event on, whatever its kind.
is_limited_event_always(kind) == TRUE

\* __call__: isinstance(event, Message) and event.from_user.
is_limited_event(kind) == kind = "message"

NoCall ==
    [kind |-> "none", user |-> 0, now |-> 0, is_limited |-> FALSE, seconds |-> 0,
     handler_called |-> FALSE, handler_result |-> "", returned |-> "", replies |-> <<>>,
     promised |-> FALSE, raised |-> ""]

\* What the downstream handler may return.
HandlerResults == {"handler_result", "None"}

\* The last admitted times kept for the properties: at most MaxRateLimit.
Remember(times, t) ==
    LET all == Append(times, t)
    IN  IF Len(all) > MaxRateLimit THEN Tail(all) ELSE all

\* RateLimitMiddleware.__call__(handler, event, data) for an event of user a.
middleware_call ==
    \E a \in Actors, kind \in EventKinds, result \in HandlerResults :
        /\ UNCHANGED <<rate_limit, time_window>>
        /\ UNCHANGED handler_vars
        /\ IF ~is_limited_event(kind)
           THEN \* return await handler(event, data)
                /\ UNCHANGED <<user_timestamps, clock, admitted, owed>>
                /\ mw' = [NoCall EXCEPT !.kind = kind, !.user = a, !.now = clock,
                                        !.handler_called = TRUE,
                                        !.handler_result = result,
                                        !.returned = result]
           ELSE LET r == is_rate_limited(user_timestamps[a], rate_limit, time_window, clock)
                IN  IF r.exc # ""
                    THEN \* the exception of _is_rate_limited leaves __call__
                         /\ user_timestamps' = set_timestamps(a, r.timestamps)
                         /\ UNCHANGED <<clock, admitted, owed>>
                         /\ mw' = [NoCall EXCEPT !.kind = kind, !.user = a, !.now = clock,
                                                 !.promised = clock \in owed[a],
                                                 !.raised = r.exc]
                    ELSE IF r.is_limited
                    THEN \* event.answer(...); return None
                         /\ user_timestamps' = set_timestamps(a, r.timestamps)
                         /\ UNCHANGED <<clock, admitted>>
                         /\ owed' = [owed EXCEPT
                                ![a] = (@ \cup {clock + r.seconds * TicksPerSecond})
                                            \cap (0..MaxClock)]
                         /\ mw' = [NoCall EXCEPT !.kind = kind, !.user = a, !.now = clock,
                                                 !.promised = clock \in owed[a],
                                                 !.is_limited = TRUE,
                                                 !.seconds = r.seconds,
                                                 !.returned = "None",
                                                 !.replies = <<<<a, "wait", r.seconds>>>>]
                    ELSE \* self._record_request(user_id); return await handler(event, data)
                         \E later \in {clock, clock + 1} \cap (0..MaxClock) :
                            /\ user_timestamps' =
                                  set_timestamps(a, record_request(r.timestamps, later))
                            /\ clock' = later
                            /\ admitted' = [admitted EXCEPT ![a] = Remember(@, later)]
                            /\ owed' = [owed EXCEPT ![a] = {}]
                            /\ mw' = [NoCall EXCEPT !.kind = kind, !.user = a, !.now = clock,
                                                    !.promised = clock \in owed[a],
                                                    !.handler_called = TRUE,
                                                    !.handler_result = result,
                                                    !.returned = result]

\* Time passes.
tick ==
    /\ clock < MaxClock
    /\ clock' = clock + 1
    /\ mw' = NoCall
    /\ UNCHANGED <<rate_limit, time_window, user_timestamps, admitted, owed>>
    /\ UNCHANGED handler_vars

(***************************************************************************)
(* Steps of a task.  inbag says whether t is already in the bag (FALSE for *)
(* the first block, which runs when the update is dispatched).             *)
(***************************************************************************)
Without(t, inbag) == IF inbag THEN tasks (-) SetToBag({t}) ELSE tasks

\* The coroutine suspends and goes on later as t2.
Suspend(t, inbag, t2) ==
    /\ tasks' = Without(t, inbag) (+) SetToBag({t2})
    /\ done' = NoDone
    /\ UNCHANGED accepted_nickname
    /\ UNCHANGED limiter_vars

\* The history of the nicknames accepted, after handler invocation t has
\* returned with result.
Accepted(t, result) ==
    IF t.handler = "process_nickname" /\ result = "nickname_accepted"
    THEN [accepted_nickname EXCEPT ![t.user] = t.nickname]
    ELSE IF \/ t.handler = "cmd_register" /\ result = "started"
            \/ t.handler = "cmd_cancel" /\ result = "cancelled"
            \/ t.handler = "process_screenshot" /\ result = "submitted"
    THEN [accepted_nickname EXCEPT ![t.user] = <<>>]
    ELSE accepted_nickname

\* The handler returns (or raises: result names the exception); its session,
\* if still open, is closed without commit.
Return(t, inbag, result, sent) ==
    /\ tasks' = Without(t, inbag)
    /\ done' = [handler |-> t.handler, user |-> t.user, target |-> t.target,
                cmd |-> t.cmd, result |-> result, text |-> t.text,
                nickname |-> t.nickname,
                pending |-> t.pending, player |-> t.player, sent |-> sent]
    /\ accepted_nickname' = Accepted(t, result)
    /\ UNCHANGED limiter_vars

\* message.answer / callback.answer: a reply to the sender of the update.
Answer(t, kind) == Append(t.sent, <<t.user, kind, TRUE>>)

\* bot.send_message / bot.send_photo to another chat; ok = FALSE when the
\* Telegram API raises (the handlers catch and log it).
SendTo(sent, to, kind, ok) == Append(sent, <<to, kind, ok>>)

Notify(to, kind, about) ==
    notifications' = notifications (+) SetToBag({<<to, kind, about>>})

Quiet == UNCHANGED notifications

\* A send outside any try: an error of the Telegram API ends the handler.
SendUncaught(ok, continues, raises) == IF ok THEN continues ELSE raises

\* try: await bot.send_...(...) except Exception: logger...: the handler
\* continues whether the send succeeded or raised.
TrySend(ok, continues, raises) == continues

\* FSMContext.clear(): state None, data {}.
ClearedState(a) == [fsm_state EXCEPT ![a] = NoState]
\* state.set_state(None) in place of state.clear(): the data stays.
KeptData(a) == fsm_data

\* state.clear(): the data of the user is emptied.
ClearedData(a) == [fsm_data EXCEPT ![a] = <<>>]

UnchangedDb == UNCHANGED <<players, pending_registrations>>
UnchangedFsm == UNCHANGED <<fsm_state, fsm_data>>

\* An update may be dispatched: the budgets of the model.
CanDispatch == events < MaxEvents /\ BagCardinality(tasks) < MaxInFlight

(***************************************************************************)
(* bot/handlers/registration.py: cmd_register                              *)
(***************************************************************************)
\* A /register that goes on where the conversation had stopped.
ResumedState(a) ==
    [fsm_state EXCEPT ![a] = IF fsm_data[a] # <<>> THEN "waiting_for_screenshot"
                             ELSE "waiting_for_nickname"]

\* state.set_state(RegistrationStates.waiting_for_nickname)
StartedState(a) == [fsm_state EXCEPT ![a] = "waiting_for_nickname"]

register_block(t, inbag) ==
    CASE t.pc = "start" ->
            \* repo.check_player_exists(message.from_user.id)
            LET r == check_player_exists(PlayersView(t), t.user)
            IN  /\ IF r.exc # "" THEN Return(t, inbag, r.exc, t.sent)
                   ELSE IF r.value
                   THEN Return(t, inbag, "already_registered", Answer(t, "already_registered"))
                   ELSE Suspend(t, inbag, [t EXCEPT !.pc = "get_pending"])
                /\ UnchangedDb /\ Quiet /\ UnchangedFsm
      [] t.pc = "get_pending" ->
            \* repo.get_pending(message.from_user.id); the loop ends, commit;
            \* message.answer(...)
            LET r == get_pending(PendingView(t), t.user)
            IN  /\ IF r.exc # "" THEN Return(t, inbag, r.exc, t.sent)
                   ELSE IF r.rows # {}
                   THEN Return(t, inbag, "already_pending", Answer(t, "already_pending"))
                   ELSE Suspend(t, inbag, [t EXCEPT !.pc = "set_state",
                                                    !.sent = Answer(t, "start_registration")])
                /\ UnchangedDb /\ Quiet /\ UnchangedFsm
      [] t.pc = "set_state" ->
            \* state.set_state(RegistrationStates.waiting_for_nickname)
            /\ fsm_state' = StartedState(t.user)
            /\ UNCHANGED fsm_data
            /\ UnchangedDb /\ Quiet
            /\ Return(t, inbag, "started", t.sent)

cmd_register ==
    \/ \E a \in Actors :
        /\ CanDispatch
        /\ events' = events + 1
        /\ register_block(NewTask("cmd_register", a, 0, NoCmd), FALSE)
    \/ \E t \in Running :
        /\ t.handler = "cmd_register"
        /\ UNCHANGED events
        /\ register_block(t, TRUE)

(***************************************************************************)
(* bot/handlers/registration.py: process_nickname                          *)
(***************************************************************************)
nickname_block(t, inbag) ==
    CASE t.pc = "start" ->
            \* nickname = message.text.strip(); validate_nickname(nickname);
            \* state.update_data(nickname=nickname); message.answer(...)
            LET nickname == strip(t.text)
                error == validate_nickname(nickname)
            IN  /\ UnchangedDb /\ Quiet
                /\ UNCHANGED fsm_state
                /\ IF error # ""
                   THEN /\ UNCHANGED fsm_data
                        /\ Return(t, inbag, "invalid_nickname", Answer(t, error))
                   ELSE /\ fsm_data' = [fsm_data EXCEPT ![t.user] = nickname]
                        /\ Suspend(t, inbag, [t EXCEPT !.pc = "set_state",
                                                       !.nickname = nickname,
                                                       !.sent = Answer(t, "nickname_accepted")])
      [] t.pc = "set_state" ->
            \* state.set_state(RegistrationStates.waiting_for_screenshot)
            /\ fsm_state' = [fsm_state EXCEPT ![t.user] = "waiting_for_screenshot"]
            /\ UNCHANGED fsm_data
            /\ UnchangedDb /\ Quiet
            /\ Return(t, inbag, "nickname_accepted", t.sent)

process_nickname ==
    \/ \E a \in Actors, text \in Texts :
        /\ CanDispatch
        /\ fsm_state[a] = "waiting_for_nickname"     \* the handler's state filter
        /\ events' = events + 1
        /\ nickname_block([NewTask("process_nickname", a, 0, NoCmd) EXCEPT !.text = text],
                          FALSE)
    \/ \E t \in Running :
        /\ t.handler = "process_nickname"
        /\ UNCHANGED events
        /\ nickname_block(t, TRUE)

(***************************************************************************)
(* bot/handlers/common.py: cmd_cancel                                      *)
(***************************************************************************)
\* A /cancel that also withdraws the sender's pending registration.
CancelWithdrawsPending(a) == {r \in pending_registrations : r.telegram_id # a}

\* cmd_cancel works on the FSM context only: it opens no session.
CancelKeepsPending(a) == pending_registrations

cmd_cancel ==
    \E a \in Actors :
        LET t == NewTask("cmd_cancel", a, 0, NoCmd)
        IN  /\ CanDispatch
            /\ events' = events + 1
            /\ UNCHANGED players
            /\ pending_registrations' = CancelKeepsPending(a)
            /\ Quiet
            /\ IF fsm_state[a] = NoState
               THEN /\ UnchangedFsm
                    /\ Return(t, FALSE, "nothing_to_cancel", Answer(t, "nothing_to_cancel"))
               ELSE /\ fsm_state' = ClearedState(a)
                    /\ fsm_data' = ClearedData(a)
                    /\ Return(t, FALSE, "cancelled", Answer(t, "cancelled"))

(***************************************************************************)
(* bot/handlers/registration.py: process_screenshot                        *)
(***************************************************************************)
\* The username as Telegram gives it, without the "@".
RawUsername(a) ==
    IF TelegramUsername(a) # <<>> THEN TelegramUsername(a) ELSE <<"user_", IdText(a)>>

\* username = message.from_user.username or f"user_{id}", "@" prefixed.
SubmitterUsername(a) ==
    LET username == IF TelegramUsername(a) # <<>> THEN TelegramUsername(a)
                    ELSE <<"user_", IdText(a)>>
    IN  IF ~startswith_at(username) THEN <<"@">> \o username ELSE username

\* local_path: screenshots_dir / screenshot_{user id}_{timestamp}.jpg
LocalPath(a, now) == <<"screenshot", a, now>>

screenshot_block(t, inbag) ==
    CASE t.pc = "start" ->
            \* data = state.get_data(); nickname = data.get("nickname")
            LET nickname == fsm_data[t.user]
            IN  /\ UnchangedDb /\ Quiet /\ UnchangedFsm
                /\ IF nickname = <<>>
                   THEN Suspend(t, inbag, [t EXCEPT !.pc = "clear_missing",
                                                    !.sent = Answer(t, "nickname_missing")])
                   ELSE Suspend(t, inbag, [t EXCEPT !.pc = "download",
                                                    !.nickname = nickname])
      [] t.pc = "clear_missing" ->
            /\ fsm_state' = ClearedState(t.user)
            /\ fsm_data' = ClearedData(t.user)
            /\ UnchangedDb /\ Quiet
            /\ Return(t, inbag, "nickname_missing", t.sent)
      [] t.pc = "download" ->
            \* bot.get_file, datetime.now(), bot.download_file: an error of
            \* the download is not caught by the handler.
            /\ UnchangedDb /\ Quiet /\ UnchangedFsm
            /\ \E ok \in BOOLEAN, now \in Timestamps :
                IF ok
                THEN Suspend(t, inbag, [t EXCEPT !.pc = "save_pending",
                                                 !.local_path = LocalPath(t.user, now)])
                ELSE Return(t, inbag, "DownloadError", t.sent)
      [] t.pc = "save_pending" ->
            \* repo.save_pending(pending) inside try/except Exception
            LET pending == PendingRow(t.user, SubmitterUsername(t.user),
                                      t.nickname, t.local_path)
                r == save_pending(PendingView(t), pending)
            IN  /\ ~PendingLocked(t, t.user)
                /\ UnchangedDb /\ Quiet /\ UnchangedFsm
                /\ IF r.exc # ""
                   THEN Suspend(t, inbag, [t EXCEPT !.pc = "clear_failed",
                                                    !.sent = Answer(t, "save_failed")])
                   ELSE Suspend(t, inbag, [t EXCEPT !.pc = "commit",
                                                    !.ins_pending = r.rows])
      [] t.pc = "clear_failed" ->
            \* state.clear(); return
            /\ fsm_state' = ClearedState(t.user)
            /\ fsm_data' = ClearedData(t.user)
            /\ UnchangedDb /\ Quiet
            /\ Return(t, inbag, "save_failed", t.sent)
      [] t.pc = "commit" ->
            \* the loop over get_session ends: session.commit()
            /\ pending_registrations' = CommitPending(t)
            /\ UNCHANGED players
            /\ UnchangedFsm /\ Quiet
            /\ Suspend(t, inbag, [CloseSession(t) EXCEPT !.pc = "notify_admin"])
      [] t.pc = "notify_admin" ->
            \* bot.send_photo(leader, ...) inside try/except; message.answer(...)
            /\ UnchangedDb /\ UnchangedFsm
            /\ Notify(leader_telegram_id, "new_application", t.user)
            /\ \E ok \in BOOLEAN :
                LET sent == SendTo(t.sent, leader_telegram_id, "new_application", ok)
                IN  TrySend(ok,
                            Suspend(t, inbag, [t EXCEPT !.pc = "clear",
                                                        !.sent = Append(sent, <<t.user, "application_sent", TRUE>>)]),
                            Return(t, inbag, "TelegramAPIError", sent))
      [] t.pc = "clear" ->
            \* state.clear()
            /\ fsm_state' = ClearedState(t.user)
            /\ fsm_data' = ClearedData(t.user)
            /\ UnchangedDb /\ Quiet
            /\ Return(t, inbag, "submitted", t.sent)

process_screenshot ==
    \/ \E a \in Actors :
        /\ CanDispatch
        /\ fsm_state[a] = "waiting_for_screenshot"   \* the handler's state filter
        /\ events' = events + 1
        /\ screenshot_block(NewTask("process_screenshot", a, 0, NoCmd), FALSE)
    \/ \E t \in Running :
        /\ t.handler = "process_screenshot"
        /\ UNCHANGED events
        /\ screenshot_block(t, TRUE)

\* invalid_screenshot: a message without a photo in waiting_for_screenshot.
invalid_screenshot ==
    \E a \in Actors :
        LET t == NewTask("invalid_screenshot", a, 0, NoCmd)
        IN  /\ CanDispatch
            /\ fsm_state[a] = "waiting_for_screenshot"
            /\ events' = events + 1
            /\ UnchangedDb /\ Quiet /\ UnchangedFsm
            /\ Return(t, FALSE, "photo_required", Answer(t, "photo_required"))

(***************************************************************************)
(* bot/handlers/decorators.py: admin_only                                  *)
(***************************************************************************)
\* admin_only without the comparison with leader_telegram_id.
is_admin_anyone(user_id) == TRUE

\* user_id != settings.telegram.leader_telegram_id is false.
is_admin(user_id) == user_id = leader_telegram_id

\* f"@{from_user.username or from_user.id}"
AdminMarker(a) ==
    <<"@">> \o (IF TelegramUsername(a) # <<>> THEN TelegramUsername(a) ELSE <<IdText(a)>>)

(***************************************************************************)
(* bot/handlers/admin.py: process_approve                                  *)
(***************************************************************************)
\* Player(...) built from the pending registration.
ApprovedPlayer(pending, approver) ==
    PlayerRow(pending.telegram_id, pending.username, pending.nickname,
              pending.screenshot_path, STATUS_ACTIVE, AdminMarker(approver), <<"approved">>)

approve_block(t, inbag) ==
    CASE t.pc = "start" ->
            \* admin_only; repo.get_pending(telegram_id)
            LET r == get_pending(PendingView(t), t.target)
            IN  /\ UnchangedDb /\ Quiet /\ UnchangedFsm
                /\ IF ~is_admin(t.user)
                   THEN Return(t, inbag, "access_denied", Answer(t, "access_denied"))
                   ELSE IF r.exc # "" THEN Return(t, inbag, r.exc, t.sent)
                   ELSE IF r.rows = {}
                   THEN Return(t, inbag, "not_found", Answer(t, "not_found"))
                   ELSE Suspend(t, inbag, [t EXCEPT !.pc = "check_player", !.pending = r.rows])
      [] t.pc = "check_player" ->
            \* repo.check_player_exists(telegram_id); callback.answer(...)
            LET r == check_player_exists(PlayersView(t), t.target)
            IN  /\ UnchangedDb /\ Quiet /\ UnchangedFsm
                /\ IF r.exc # "" THEN Return(t, inbag, r.exc, t.sent)
                   ELSE IF r.value
                   THEN Suspend(t, inbag, [t EXCEPT !.pc = "remove_stale",
                                                    !.sent = Answer(t, "already_registered")])
                   ELSE Suspend(t, inbag, [t EXCEPT !.pc = "add_player"])
      [] t.pc = "remove_stale" ->
            \* repo.remove_pending(telegram_id); return  -- inside the loop over
            \* get_session, so the session is closed without commit.
            /\ ~PendingLocked(t, t.target)
            /\ UnchangedDb /\ Quiet /\ UnchangedFsm
            /\ Return(t, inbag, "already_member", t.sent)
      [] t.pc = "add_player" ->
            \* try: repo.add_player(player) ... except Exception: answer; return
            LET pending == CHOOSE p \in t.pending : TRUE
                r == add_player(PlayersView(t), ApprovedPlayer(pending, t.user))
            IN  /\ ~PlayerLocked(t, t.target)
                /\ UNCHANGED pending_registrations /\ Quiet /\ UnchangedFsm
                /\ IF r.exc # ""
                   THEN /\ players' = Abandoned(players, r.rows)
                        /\ Return(t, inbag, "approve_error", Answer(t, "approve_error"))
                   ELSE /\ UNCHANGED players
                        /\ Suspend(t, inbag, [t EXCEPT !.pc = "remove_pending",
                                                        !.ins_player = r.rows])
      [] t.pc = "remove_pending" ->
            \* repo.remove_pending(telegram_id), still inside the try
            LET r == remove_pending(PendingView(t), t.target)
            IN  /\ ~PendingLocked(t, t.target)
                /\ UnchangedDb /\ Quiet /\ UnchangedFsm
                /\ Suspend(t, inbag, [t EXCEPT !.pc = "commit", !.del_pending = r.rows])
      [] t.pc = "commit" ->
            /\ players' = CommitPlayers(t)
            /\ pending_registrations' = CommitPending(t)
            /\ UnchangedFsm /\ Quiet
            /\ Suspend(t, inbag, [CloseSession(t) EXCEPT !.pc = "notify"])
      [] t.pc = "notify" ->
            \* bot.send_message(telegram_id, ...) inside try/except;
            \* edit_caption; callback.answer
            /\ UnchangedDb /\ UnchangedFsm
            /\ Notify(t.target, "approved_notice", t.target)
            /\ \E ok \in BOOLEAN :
                TrySend(ok,
                        Return(t, inbag, "approved",
                               Append(SendTo(t.sent, t.target, "approved_notice", ok),
                                      <<t.user, "approved", TRUE>>)),
                        Return(t, inbag, "TelegramAPIError",
                               SendTo(t.sent, t.target, "approved_notice", ok)))

process_approve ==
    \/ \E a \in Actors, telegram_id \in Actors :
        /\ CanDispatch
        /\ events' = events + 1
        /\ approve_block(NewTask("process_approve", a, telegram_id, NoCmd), FALSE)
    \/ \E t \in Running :
        /\ t.handler = "process_approve"
        /\ UNCHANGED events
        /\ approve_block(t, TRUE)

(***************************************************************************)
(* bot/handlers/admin.py: process_reject                                   *)
(***************************************************************************)
reject_block(t, inbag) ==
    CASE t.pc = "start" ->
            LET r == get_pending(PendingView(t), t.target)
            IN  /\ UnchangedDb /\ Quiet /\ UnchangedFsm
                /\ IF ~is_admin(t.user)
                   THEN Return(t, inbag, "access_denied", Answer(t, "access_denied"))
                   ELSE IF r.exc # "" THEN Return(t, inbag, r.exc, t.sent)
                   ELSE IF r.rows = {}
                   THEN Return(t, inbag, "not_found", Answer(t, "not_found"))
                   ELSE Suspend(t, inbag, [t EXCEPT !.pc = "remove_pending", !.pending = r.rows])
      [] t.pc = "remove_pending" ->
            \* try: repo.remove_pending(telegram_id)
            LET r == remove_pending(PendingView(t), t.target)
            IN  /\ ~PendingLocked(t, t.target)
                /\ UnchangedDb /\ Quiet /\ UnchangedFsm
                /\ Suspend(t, inbag, [t EXCEPT !.pc = "commit", !.del_pending = r.rows])
      [] t.pc = "commit" ->
            /\ pending_registrations' = CommitPending(t)
            /\ UNCHANGED players
            /\ UnchangedFsm /\ Quiet
            /\ Suspend(t, inbag, [CloseSession(t) EXCEPT !.pc = "notify"])
      [] t.pc = "notify" ->
            /\ UnchangedDb /\ UnchangedFsm
            /\ Notify(t.target, "rejected_notice", t.target)
            /\ \E ok \in BOOLEAN :
                TrySend(ok,
                        Return(t, inbag, "rejected",
                               Append(SendTo(t.sent, t.target, "rejected_notice", ok),
                                      <<t.user, "rejected", TRUE>>)),
                        Return(t, inbag, "TelegramAPIError",
                               SendTo(t.sent, t.target, "rejected_notice", ok)))

process_reject ==
    \/ \E a \in Actors, telegram_id \in Actors :
        /\ CanDispatch
        /\ events' = events + 1
        /\ reject_block(NewTask("process_reject", a, telegram_id, NoCmd), FALSE)
    \/ \E t \in Running :
        /\ t.handler = "process_reject"
        /\ UNCHANGED events
        /\ reject_block(t, TRUE)

(***************************************************************************)
(* bot/handlers/admin.py: cmd_exclude                                      *)
(***************************************************************************)
\* "/exclude ..." split with maxsplit=2: n parts, parts[1] the handle,
\* parts[2] the reason.
ExcludeCommands ==
    {[n |-> 3, handle |-> h, reason |-> r] :
        h \in {SubmitterUsername(2), <<"admin">>}, r \in Reasons}
    \cup {[n |-> 2, handle |-> SubmitterUsername(2), reason |-> <<>>]}

exclude_block(t, inbag) ==
    CASE t.pc = "start" ->
            \* admin_only; parts = text.split(maxsplit=2); normalize_username;
            \* repo.get_all_players(); next(p for p in players if p.username == username)
            LET username == normalize_username(t.cmd.handle)
                r == get_all_players(PlayersView(t))
                found == {p \in r.rows : p.username = username}
            IN  /\ UnchangedDb /\ Quiet /\ UnchangedFsm
                /\ IF ~is_admin(t.user)
                   THEN Return(t, inbag, "access_denied", Answer(t, "access_denied"))
                   ELSE IF t.cmd.n < 3
                   THEN Return(t, inbag, "bad_format", Answer(t, "bad_format"))
                   ELSE IF r.exc # "" THEN Return(t, inbag, r.exc, t.sent)
                   ELSE IF found = {}
                   THEN Return(t, inbag, "player_not_found", Answer(t, "player_not_found"))
                   ELSE IF \E p \in found : p.status = STATUS_EXCLUDED
                   THEN Return(t, inbag, "already_excluded", Answer(t, "already_excluded"))
                   ELSE Suspend(t, inbag, [t EXCEPT !.pc = "exclude_player", !.player = found])
      [] t.pc = "exclude_player" ->
            \* try: repo.exclude_player(player.telegram_id, reason, excluded_by)
            LET player == CHOOSE p \in t.player : TRUE
            IN  /\ ~PlayerLocked(t, player.telegram_id)
                /\ UnchangedDb /\ Quiet /\ UnchangedFsm
                /\ \E now \in Timestamps :
                    LET r == exclude_player(PlayersView(t), player.telegram_id,
                                            t.cmd.reason, AdminMarker(t.user), now)
                    IN  Suspend(t, inbag, [t EXCEPT !.pc = "commit", !.upd_player = r.writes])
      [] t.pc = "commit" ->
            /\ players' = CommitPlayers(t)
            /\ UNCHANGED pending_registrations
            /\ UnchangedFsm /\ Quiet
            /\ Suspend(t, inbag, [CloseSession(t) EXCEPT !.pc = "notify"])
      [] t.pc = "notify" ->
            LET player == CHOOSE p \in t.player : TRUE
            IN  /\ UnchangedDb /\ UnchangedFsm
                /\ Notify(player.telegram_id, "excluded_notice", player.telegram_id)
                /\ \E ok \in BOOLEAN :
                    TrySend(ok,
                            Return(t, inbag, "excluded",
                                   Append(SendTo(t.sent, player.telegram_id, "excluded_notice", ok),
                                          <<t.user, "excluded", TRUE>>)),
                            Return(t, inbag, "TelegramAPIError",
                                   SendTo(t.sent, player.telegram_id, "excluded_notice", ok)))

\* The text "/exclude ..." is taken by process_nickname or invalid_screenshot
\* when the sender is in a registration state (router order of main.py).
cmd_exclude ==
    \E t \in {NewTask("cmd_exclude", a, 0, cmd) : a \in Actors, cmd \in ExcludeCommands}
              \cup {u \in Running : u.handler = "cmd_exclude"} :
        IF t.pc = "start"
        THEN /\ CanDispatch
             /\ fsm_state[t.user] = NoState
             /\ events' = events + 1
             /\ exclude_block(t, FALSE)
        ELSE /\ UNCHANGED events
             /\ exclude_block(t, TRUE)

(***************************************************************************)
(* bot/handlers/admin.py: cmd_pending, cmd_list (read only)                *)
(***************************************************************************)
cmd_pending ==
    \E a \in Actors :
        LET t == NewTask("cmd_pending", a, 0, NoCmd)
            r == get_all_pending(PendingView(t))
        IN  /\ CanDispatch
            /\ fsm_state[a] = NoState
            /\ events' = events + 1
            /\ UnchangedDb /\ Quiet /\ UnchangedFsm
            /\ IF ~is_admin(a)
               THEN Return(t, FALSE, "access_denied", Answer(t, "access_denied"))
               ELSE IF r.exc # "" THEN Return(t, FALSE, r.exc, t.sent)
               ELSE IF r.rows = {}
               THEN Return(t, FALSE, "no_pending", Answer(t, "no_pending"))
               ELSE Return(t, FALSE, "pending_list", Answer(t, "pending_list"))

cmd_list ==
    \E a \in Actors :
        LET t == NewTask("cmd_list", a, 0, NoCmd)
            r == get_all_players(PlayersView(t))
        IN  /\ CanDispatch
            /\ fsm_state[a] = NoState
            /\ events' = events + 1
            /\ UnchangedDb /\ Quiet /\ UnchangedFsm
            /\ IF ~is_admin(a)
               THEN Return(t, FALSE, "access_denied", Answer(t, "access_denied"))
               ELSE IF r.exc # "" THEN Return(t, FALSE, r.exc, t.sent)
               ELSE IF r.rows = {}
               THEN Return(t, FALSE, "no_players", Answer(t, "no_players"))
               ELSE Return(t, FALSE, "players_list", Answer(t, "players_list"))

(***************************************************************************)
(* A caller of PlayerRepository other than the handlers: one operation in  *)
(* a session of its own, used as get_session documents                     *)
(* ("async for session in db.get_session(): ...").  An exception leaves    *)
(* the body, so the session is closed without commit; otherwise the body   *)
(* ends and get_session commits.  done.pending and done.player are the     *)
(* committed rows of the key before the operation.                         *)
(***************************************************************************)
StoreCall(op, telegram_id) ==
    [NewTask(op, 0, telegram_id, NoCmd) EXCEPT
        !.pending = {r \in pending_registrations : r.telegram_id = telegram_id},
        !.player = {r \in players : r.telegram_id = telegram_id}]

StorePlayer(a) ==
    PlayerRow(a, SubmitterUsername(a), <<"W">>, LocalPath(a, 2), STATUS_ACTIVE, <<"bot">>, <<>>)

StorePending(a) == PendingRow(a, SubmitterUsername(a), <<"W">>, LocalPath(a, 2))

StoreStatuses == {STATUS_ACTIVE, STATUS_EXCLUDED}

StoreResult(r) == IF r.exc # "" THEN r.exc ELSE IF r.value THEN "True" ELSE "False"

repo_add_player ==
    \E a \in Actors :
        LET t == StoreCall("repo.add_player", a)
            r == add_player(players, StorePlayer(a))
        IN  /\ CanDispatch
            /\ ~PlayerLocked(t, a)
            /\ events' = events + 1
            /\ players' = IF r.exc = "" THEN players \cup r.rows ELSE players
            /\ UNCHANGED pending_registrations
            /\ UnchangedFsm /\ Quiet
            /\ Return(t, FALSE, IF r.exc # "" THEN r.exc ELSE "added", <<>>)

repo_save_pending ==
    \E a \in Actors :
        LET t == StoreCall("repo.save_pending", a)
            r == save_pending(pending_registrations, StorePending(a))
        IN  /\ CanDispatch
            /\ ~PendingLocked(t, a)
            /\ events' = events + 1
            /\ pending_registrations' =
                   IF r.exc = "" THEN pending_registrations \cup r.rows
                   ELSE pending_registrations
            /\ UNCHANGED players
            /\ UnchangedFsm /\ Quiet
            /\ Return(t, FALSE, IF r.exc # "" THEN r.exc ELSE "saved", <<>>)

repo_remove_pending ==
    \E a \in Actors :
        LET t == StoreCall("repo.remove_pending", a)
            r == remove_pending(pending_registrations, a)
        IN  /\ CanDispatch
            /\ ~PendingLocked(t, a)
            /\ events' = events + 1
            /\ pending_registrations' = pending_registrations \ r.rows
            /\ UNCHANGED players
            /\ UnchangedFsm /\ Quiet
            /\ Return(t, FALSE, StoreResult(r), <<>>)

repo_exclude_player ==
    \E a \in Actors, reason \in Reasons, now \in Timestamps :
        LET t == StoreCall("repo.exclude_player", a)
            r == exclude_player(players, a, reason, AdminMarker(leader_telegram_id), now)
        IN  /\ CanDispatch
            /\ ~PlayerLocked(t, a)
            /\ events' = events + 1
            /\ players' = FlushUpdates(players, r.writes)
            /\ UNCHANGED pending_registrations
            /\ UnchangedFsm /\ Quiet
            /\ Return(t, FALSE, StoreResult(r), <<>>)

repo_update_player_status ==
    \E a \in Actors, status \in StoreStatuses :
        LET t == StoreCall("repo.update_player_status", a)
            r == update_player_status(players, a, status)
        IN  /\ CanDispatch
            /\ ~PlayerLocked(t, a)
            /\ events' = events + 1
            /\ players' = FlushUpdates(players, r.writes)
            /\ UNCHANGED pending_registrations
            /\ UnchangedFsm /\ Quiet
            /\ Return(t, FALSE, StoreResult(r), <<>>)

(***************************************************************************)
(* The database outlives the process: the rows of table players present   *)
(* when the bot starts.  Table pending_registrations and the FSM storage   *)
(* (MemoryStorage) start empty.                                            *)
(***************************************************************************)
RosterRow(a, status) ==
    IF status = STATUS_ACTIVE
    THEN PlayerRow(a, SubmitterUsername(a), <<"R">>, LocalPath(a, 1),
                   STATUS_ACTIVE, <<"bot">>, <<>>)
    ELSE [PlayerRow(a, SubmitterUsername(a), <<"R">>, LocalPath(a, 1),
                    STATUS_EXCLUDED, <<"bot">>, <<>>)
            EXCEPT !.exclusion_date = <<1>>,
                   !.exclusion_reason = <<"rule">>,
                   !.excluded_by = AdminMarker(leader_telegram_id)]

Rosters ==
    {S \in SUBSET {RosterRow(1, STATUS_ACTIVE), RosterRow(2, STATUS_ACTIVE),
                   RosterRow(2, STATUS_EXCLUDED)} :
        \A r1, r2 \in S : r1.telegram_id = r2.telegram_id => r1 = r2}

\* main.py constructs no RateLimitMiddleware.
NoLimiter ==
    /\ rate_limit = 0
    /\ time_window = 0
    /\ user_timestamps = [a \in Actors |-> <<>>]
    /\ clock = 0
    /\ mw = NoCall
    /\ admitted = [a \in Actors |-> <<>>]
    /\ owed = [a \in Actors |-> {}]

Init ==
    /\ players \in Rosters
    /\ pending_registrations = {}
    /\ fsm_state = [a \in Actors |-> NoState]
    /\ fsm_data = [a \in Actors |-> <<>>]
    /\ tasks = EmptyBag
    /\ done = NoDone
    /\ notifications = EmptyBag
    /\ events = 0
    /\ accepted_nickname = [a \in Actors |-> <<>>]
    /\ NoLimiter

Next ==
    \/ cmd_register
    \/ process_nickname
    \/ process_screenshot
    \/ invalid_screenshot
    \/ cmd_cancel
    \/ process_approve
    \/ process_reject
    \/ cmd_exclude
    \/ cmd_pending
    \/ cmd_list

Spec == Init /\ [][Next]_vars

\* The handlers together with other callers of the repository.
NextStore ==
    \/ Next
    \/ repo_add_player
    \/ repo_save_pending
    \/ repo_remove_pending
    \/ repo_exclude_player
    \/ repo_update_player_status

SpecStore == Init /\ [][NextStore]_vars

\* The program when the updates of one user are handled one after the other:
\* an update of a user is dispatched only when no handler invocation of that
\* user is in flight.
InOrder ==
    (events' = events + 1) =>
        \A a \in Actors :
            (\/ done'.user = a
             \/ \E t \in BagToSet(tasks') :
                    CopiesIn(t, tasks') > CopiesIn(t, tasks) /\ t.user = a) =>
                \A t \in BagToSet(tasks) : t.user # a

NextInOrder == Next /\ InOrder

SpecInOrder == Init /\ [][NextInOrder]_vars

\* A RateLimitMiddleware on its own, as test_rate_limit.py constructs it:
\* RateLimitMiddleware(rate_limit, time_window) with an empty storage.
RateLimits == 1..MaxRateLimit
TimeWindows == {1, 2}

InitLimiter ==
    /\ players = {}
    /\ pending_registrations = {}
    /\ fsm_state = [a \in Actors |-> NoState]
    /\ fsm_data = [a \in Actors |-> <<>>]
    /\ tasks = EmptyBag
    /\ done = NoDone
    /\ notifications = EmptyBag
    /\ events = 0
    /\ accepted_nickname = [a \in Actors |-> <<>>]
    /\ rate_limit \in RateLimits
    /\ time_window \in TimeWindows
    /\ user_timestamps = [a \in Actors |-> <<>>]
    /\ clock = 0
    /\ mw = NoCall
    /\ admitted = [a \in Actors |-> <<>>]
    /\ owed = [a \in Actors |-> {}]

NextLimiter ==
    \/ middleware_call
    \/ tick

SpecLimiter == InitLimiter /\ [][NextLimiter]_vars

(***************************************************************************)
(* RateLimitMiddleware.__call__ with its suspension points.  __call__      *)
(* awaits twice: event.answer(...) of the denial and handler(event, data). *)
(* Between its entry and the await it reaches nothing else can run; while  *)
(* it waits, other invocations of the middleware enter and wait.           *)
(***************************************************************************)
\* _is_rate_limited that lets one request more through.
is_rate_limited_above(timestamps, limit, window, current_time) ==
    is_rate_limited(timestamps, limit + 1, window, current_time)

\* The check as __call__ makes it (line 94).
check_rate_limit(timestamps, limit, window, current_time) ==
    is_rate_limited(timestamps, limit, window, current_time)

MiddlewareTask(a, pc) == [NewTask("RateLimitMiddleware", a, 0, NoCmd) EXCEPT !.pc = pc]

\* __call__ from its entry to the await it reaches.
middleware_enter ==
    \E a \in Actors, kind \in EventKinds :
        /\ BagCardinality(tasks) < MaxInFlight
        /\ UNCHANGED <<rate_limit, time_window, mw, owed>>
        /\ UNCHANGED <<players, pending_registrations, fsm_state, fsm_data,
                       notifications, events, accepted_nickname>>
        /\ done' = NoDone
        /\ IF ~is_limited_event(kind)
           THEN /\ UNCHANGED <<user_timestamps, clock, admitted>>
                /\ tasks' = tasks (+) SetToBag({MiddlewareTask(a, "handler")})
           ELSE LET r == check_rate_limit(user_timestamps[a], rate_limit, time_window, clock)
                IN  IF r.exc # ""
                    THEN /\ user_timestamps' = set_timestamps(a, r.timestamps)
                         /\ UNCHANGED <<clock, admitted, tasks>>
                    ELSE IF r.is_limited
                    THEN /\ user_timestamps' = set_timestamps(a, r.timestamps)
                         /\ UNCHANGED <<clock, admitted>>
                         /\ tasks' = tasks (+) SetToBag({MiddlewareTask(a, "answer")})
                    ELSE \E later \in {clock, clock + 1} \cap (0..MaxClock) :
                            /\ user_timestamps' =
                                  set_timestamps(a, record_request(r.timestamps, later))
                            /\ clock' = later
                            /\ admitted' = [admitted EXCEPT ![a] = Remember(@, later)]
                            /\ tasks' = tasks (+) SetToBag({MiddlewareTask(a, "handler")})

\* The await ends: __call__ returns None after the reply, or the handler's
\* result.
middleware_resume ==
    \E t \in Running :
        /\ t.handler = "RateLimitMiddleware"
        /\ UNCHANGED <<players, pending_registrations, fsm_state, fsm_data,
                       notifications, events>>
        /\ IF t.pc = "answer"
           THEN Return(t, TRUE, "None", Answer(t, "wait"))
           ELSE Return(t, TRUE, "handler_result", t.sent)

\* Time passes while invocations wait.
tick_in_flight ==
    /\ clock < MaxClock
    /\ clock' = clock + 1
    /\ done' = NoDone
    /\ UNCHANGED <<rate_limit, time_window, user_timestamps, mw, admitted, owed>>
    /\ UNCHANGED <<players, pending_registrations, fsm_state, fsm_data, tasks,
                   notifications, events, accepted_nickname>>

NextInFlight ==
    \/ middleware_enter
    \/ middleware_resume
    \/ tick_in_flight

SpecInFlight == InitLimiter /\ [][NextInFlight]_vars

\* A RateLimitMiddleware constructed with any limit that __init__ accepts
\* (rate_limit: int, stored as given), zero included.
AnyRateLimits == 0..MaxRateLimit

InitAnyLimit ==
    /\ players = {}
    /\ pending_registrations = {}
    /\ fsm_state = [a \in Actors |-> NoState]
    /\ fsm_data = [a \in Actors |-> <<>>]
    /\ tasks = EmptyBag
    /\ done = NoDone
    /\ notifications = EmptyBag
    /\ events = 0
    /\ accepted_nickname = [a \in Actors |-> <<>>]
    /\ rate_limit \in AnyRateLimits
    /\ time_window \in TimeWindows
    /\ user_timestamps = [a \in Actors |-> <<>>]
    /\ clock = 0
    /\ mw = NoCall
    /\ admitted = [a \in Actors |-> <<>>]
    /\ owed = [a \in Actors |-> {}]

SpecAnyLimit == InitAnyLimit /\ [][NextLimiter]_vars

(***************************************************************************)
(* Vocabulary of the properties.                                           *)
(***************************************************************************)
PendingOf(a) == {r \in pending_registrations : r.telegram_id = a}
MemberOf(a) == {r \in players : r.telegram_id = a}

\* The messages of kind sent to chat `to` by an invocation (attempts).
SentIndexes(sent, to, kind) ==
    {i \in 1..Len(sent) : sent[i][1] = to /\ sent[i][2] = kind}
Sent(sent, to, kind) == SentIndexes(sent, to, kind) # {}

NotifiedCount(to, kind, about) == CopiesIn(<<to, kind, about>>, notifications)

\* Task t takes a step in this transition.
Stepped(t) == CopiesIn(t, tasks') < CopiesIn(t, tasks)

\* This transition dispatches an update of actor a to handler h (target k):
\* the first block of the handler runs, and it returns or suspends.
Started(h, a, k) ==
    {t \in BagToSet(tasks') : /\ CopiesIn(t, tasks') > CopiesIn(t, tasks)
                              /\ t.handler = h /\ t.user = a /\ t.target = k}

Dispatched(h, a, k) ==
    /\ events' = events + 1
    /\ \/ done'.handler = h /\ done'.user = a /\ done'.target = k
       \/ Started(h, a, k) # {}

\* An Approve of the request of actor a is in progress.
ApproveInProgress(a) ==
    \E t \in Running : t.handler = "process_approve" /\ t.target = a

\* A decision on the request of actor a has been committed.
Decided(a) ==
    \/ \E t \in Running :
        /\ t.handler \in {"process_approve", "process_reject"}
        /\ t.target = a
        /\ t.pc = "notify"
    \/ NotifiedCount(a, "approved_notice", a) > 0
    \/ NotifiedCount(a, "rejected_notice", a) > 0

(***************************************************************************)
(* C1.  Per-actor uniqueness.  No actor has more than one row in           *)
(* pending_registrations and no actor has more than one row in players;    *)
(* save_pending for an actor that has a pending row, and add_player for an *)
(* actor that has a player row, raise IntegrityError and leave the rows of *)
(* that actor as they were.                                                *)
(***************************************************************************)
PerActorUniqueness ==
    /\ \A a \in Actors :
        /\ Cardinality(PendingOf(a)) <= 1
        /\ Cardinality(MemberOf(a)) <= 1
    /\ (done.handler = "repo.save_pending" /\ done.pending # {}) =>
            /\ done.result = "IntegrityError"
            /\ PendingOf(done.target) = done.pending
    /\ (done.handler = "repo.add_player" /\ done.player # {}) =>
            /\ done.result = "IntegrityError"
            /\ MemberOf(done.target) = done.player

\* save_pending has just failed for an actor whose pending row differs
\* from the one offered, and that row is still the actor's only one.
DuplicateSaveRefused ==
    /\ done.handler = "repo.save_pending"
    /\ done.result = "IntegrityError"
    /\ done.pending # {}
    /\ StorePending(done.target) \notin done.pending
    /\ PendingOf(done.target) = done.pending

Savers(a) ==
    {t \in Running : /\ t.handler = "process_screenshot"
                     /\ t.user = a
                     /\ t.pc \in {"commit", "notify_admin"}}

OneSubmissionWins ==
    \A a \in Actors :
        ~Decided(a) =>
            /\ Cardinality(PendingOf(a)) <= 1
            /\ \A t \in Savers(a) : CopiesIn(t, tasks) = 1
            /\ Cardinality(Savers(a))
                 + NotifiedCount(leader_telegram_id, "new_application", a) <= 1
            /\ NotifiedCount(leader_telegram_id, "new_application", a) = 1
                    => Cardinality(PendingOf(a)) = 1
            /\ (done.handler = "process_screenshot" /\ done.user = a
                    /\ done.result = "save_failed") =>
                    /\ Sent(done.sent, a, "save_failed")
                    /\ ~Sent(done.sent, leader_telegram_id, "new_application")
                    /\ fsm_state[a] = NoState
                    /\ fsm_data[a] = <<>>
                    /\ Cardinality(PendingOf(a)) = 1

\* The losing attempt returns while the winning one, which has saved the
\* row and notified the administrator, is still running.
LoserReturnsBesideWinner ==
    /\ done.handler = "process_screenshot"
    /\ done.result = "save_failed"
    /\ ~Decided(done.user)
    /\ NotifiedCount(leader_telegram_id, "new_application", done.user) = 1
    /\ \E t \in Running :
        /\ t.handler = "process_screenshot"
        /\ t.user = done.user
        /\ t.pc = "clear"

(***************************************************************************)
(* C4.  Entry guard for members, as stated: when an actor that has a       *)
(* player row (active or excluded) sends /register, in any conversation    *)
(* state, the handler replies 'already registered' and the conversation    *)
(* state, the data and the pending rows are unchanged.                     *)
(***************************************************************************)
MemberRegisterAnswered ==
    [][\A a \in Actors :
        (Dispatched("cmd_register", a, 0) /\ MemberOf(a) # {}) =>
            /\ done'.handler = "cmd_register"
            /\ done'.result = "already_registered"
            /\ Sent(done'.sent, a, "already_registered")
            /\ UNCHANGED <<fsm_state, fsm_data, pending_registrations>>]_vars

(***************************************************************************)
(* C5.  Entry guard for pending applicants.  /register of an actor without *)
(* a player row goes on to get_pending with nothing sent and nothing       *)
(* changed; when get_pending then finds the actor's pending row the        *)
(* handler returns with the single reply 'already pending', and the        *)
(* conversation state, the data, both tables and the notifications sent to *)
(* the administrator are unchanged.                                        *)
(***************************************************************************)
PendingRegisterRefused ==
    [][/\ \A a \in Actors :
            (Dispatched("cmd_register", a, 0) /\ MemberOf(a) = {}) =>
                /\ \E t \in Started("cmd_register", a, 0) :
                        t.pc = "get_pending" /\ t.sent = <<>>
                /\ UNCHANGED <<fsm_state, fsm_data, pending_registrations,
                               players, notifications>>
       /\ \A t \in Running :
            (/\ t.handler = "cmd_register"
             /\ t.pc = "get_pending"
             /\ Stepped(t)
             /\ PendingOf(t.user) # {}) =>
                /\ done'.handler = "cmd_register"
                /\ done'.user = t.user
                /\ done'.result = "already_pending"
                /\ done'.sent = <<<<t.user, "already_pending", TRUE>>>>
                /\ UNCHANGED <<fsm_state, fsm_data, pending_registrations,
                               players, notifications>>]_vars

\* An applicant whose submission the administrator has been notified of
\* has sent /register again and got 'already pending'.
ApplicantRegistersAgain ==
    /\ done.handler = "cmd_register"
    /\ done.result = "already_pending"
    /\ PendingOf(done.user) # {}
    /\ MemberOf(done.user) = {}
    /\ NotifiedCount(leader_telegram_id, "new_application", done.user) = 1

(***************************************************************************)
(* C6.  Approve success, as stated: when an Approve of the administrator   *)
(* that found the target's pending row and no player row of the target     *)
(* has ended, the target has a player row with status active, with         *)
(* nickname, handle and proof of the pending row and added_by the          *)
(* approver's handle, the target has no pending row, and the target was    *)
(* sent exactly one approval notification.                                 *)
(***************************************************************************)
ApproveCreatesMember ==
    (/\ done.handler = "process_approve"
     /\ is_admin(done.user)
     /\ done.result \in {"approved", "approve_error"}) =>
        /\ \E p \in done.pending :
                MemberOf(done.target) = {ApprovedPlayer(p, done.user)}
        /\ PendingOf(done.target) = {}
        /\ Cardinality(SentIndexes(done.sent, done.target, "approved_notice")) = 1

(***************************************************************************)
(* C7.  Stale-request cleanup, as stated: when an Approve of the           *)
(* administrator that found the target's pending row has ended and the     *)
(* target has a player row, the handler has signalled AlreadyMember, has   *)
(* sent no approval notification, and the target has no pending row.       *)
(***************************************************************************)
StaleRequestRemoved ==
    (/\ done.handler = "process_approve"
     /\ is_admin(done.user)
     /\ done.pending # {}
     /\ MemberOf(done.target) # {}) =>
        /\ done.result = "already_member"
        /\ ~Sent(done.sent, done.target, "approved_notice")
        /\ PendingOf(done.target) = {}

(***************************************************************************)
(* C8.  NotFound on decision.  An Approve or Reject of the administrator   *)
(* for a target without a pending row returns at once with the single      *)
(* reply 'not found'; no row of either table changes, nothing is sent to   *)
(* the target, and no conversation state changes.                          *)
(***************************************************************************)
DecisionNotFound ==
    [][\A a, k \in Actors : \A h \in {"process_approve", "process_reject"} :
        (Dispatched(h, a, k) /\ is_admin(a) /\ PendingOf(k) = {}) =>
            /\ done'.handler = h
            /\ done'.result = "not_found"
            /\ done'.sent = <<<<a, "not_found", TRUE>>>>
            /\ UNCHANGED <<players, pending_registrations, notifications,
                           fsm_state, fsm_data>>]_vars

\* The administrator has approved an applicant who is not a member and
\* has no request, and got 'not found'.
ApproveWithoutRequest ==
    /\ done.handler = "process_approve"
    /\ is_admin(done.user)
    /\ done.target # done.user
    /\ done.result = "not_found"
    /\ MemberOf(done.target) = {}
    /\ PendingOf(done.target) = {}

(***************************************************************************)
(* C9.  Reject success.  A Reject of the administrator for a target with   *)
(* a pending row goes on to remove it; its remove_pending deletes the row  *)
(* the target has then, and when the session that deleted it commits, the  *)
(* target has no pending row; no step of it changes table players; it      *)
(* ends by sending the target one rejection notification.  A /register     *)
(* that then finds no pending row of the sender passes the guard: it       *)
(* replies with the start of the flow and sets the state                   *)
(* waiting_for_nickname.                                                   *)
(***************************************************************************)
RejectRemovesRequest ==
    [][/\ \A a, k \in Actors :
            (Dispatched("process_reject", a, k) /\ is_admin(a) /\ PendingOf(k) # {}) =>
                /\ \E t \in Started("process_reject", a, k) :
                        t.pc = "remove_pending" /\ t.pending = PendingOf(k)
                /\ UNCHANGED <<players, pending_registrations, notifications>>
       /\ \A t \in Running :
            (t.handler = "process_reject" /\ Stepped(t)) =>
                /\ players' = players
                /\ (t.pc = "remove_pending" /\ PendingOf(t.target) # {}) =>
                        \E u \in BagToSet(tasks') :
                            /\ u.handler = "process_reject" /\ u.target = t.target
                            /\ u.pc = "commit"
                            /\ u.del_pending = PendingOf(t.target)
                /\ (t.pc = "commit" /\ t.del_pending # {}) => PendingOf(t.target)' = {}
                /\ t.pc # "commit" => pending_registrations' = pending_registrations
                /\ t.pc = "notify" =>
                    /\ done'.handler = "process_reject"
                    /\ done'.result = "rejected"
                    /\ Cardinality(SentIndexes(done'.sent, t.target, "rejected_notice")) = 1
                    /\ NotifiedCount(t.target, "rejected_notice", t.target)'
                         = NotifiedCount(t.target, "rejected_notice", t.target) + 1
       /\ \A t \in Running :
            (t.handler = "cmd_register" /\ Stepped(t)) =>
                /\ (t.pc = "get_pending" /\ PendingOf(t.user) = {}) =>
                        \E u \in BagToSet(tasks') :
                            /\ u.handler = "cmd_register" /\ u.user = t.user
                            /\ u.pc = "set_state"
                            /\ Sent(u.sent, t.user, "start_registration")
                /\ t.pc = "set_state" =>
                    /\ done'.result = "started"
                    /\ fsm_state'[t.user] = "waiting_for_nickname"]_vars

\* An applicant whose request was rejected has sent /register again and
\* the new flow has started.
RejectedApplicantStartsAgain ==
    /\ done.handler = "cmd_register"
    /\ done.result = "started"
    /\ NotifiedCount(done.user, "rejected_notice", done.user) = 1
    /\ PendingOf(done.user) = {}
    /\ fsm_state[done.user] = "waiting_for_nickname"

(***************************************************************************)
(* C10.  Exclude success, as stated: when "/exclude handle reason" of the  *)
(* administrator, with a non-empty reason, has ended, no member matching   *)
(* the handle is still active, and when the handler has excluded the       *)
(* member that row carries status excluded, the reason given, the          *)
(* excluding actor's handle and an exclusion date, and the member was sent *)
(* the notification.                                                       *)
(***************************************************************************)
ExcludeTakesEffect ==
    (/\ done.handler = "cmd_exclude"
     /\ is_admin(done.user)
     /\ done.cmd.n = 3
     /\ done.cmd.reason # <<>>) =>
        \A m \in players :
            m.username = normalize_username(done.cmd.handle) =>
                /\ m.status # STATUS_ACTIVE
                /\ done.result = "excluded" =>
                    /\ m.status = STATUS_EXCLUDED
                    /\ m.exclusion_reason = done.cmd.reason
                    /\ m.excluded_by = AdminMarker(done.user)
                    /\ m.exclusion_date # NULL
                    /\ Sent(done.sent, m.telegram_id, "excluded_notice")

(***************************************************************************)
(* C11.  A failed Exclude has no effect, as stated: "/exclude" of the      *)
(* administrator with a missing reason, with a handle that matches no      *)
(* member, or with a handle of a member that is already excluded returns   *)
(* at once with the one error reply of its case, and no row of either      *)
(* table changes and nobody is notified.                                   *)
(***************************************************************************)
ExcludeDispatched(a, cmd) ==
    /\ events' = events + 1
    /\ \/ done'.handler = "cmd_exclude" /\ done'.user = a /\ done'.cmd = cmd
       \/ \E t \in BagToSet(tasks') :
            /\ CopiesIn(t, tasks') > CopiesIn(t, tasks)
            /\ t.handler = "cmd_exclude" /\ t.user = a /\ t.cmd = cmd

FailedExcludeAnswered ==
    [][\A a \in Actors, cmd \in ExcludeCommands :
        LET found == {m \in players : m.username = normalize_username(cmd.handle)}
        IN  (/\ ExcludeDispatched(a, cmd)
             /\ is_admin(a)
             /\ \/ cmd.n < 3
                \/ found = {}
                \/ \E m \in found : m.status = STATUS_EXCLUDED) =>
                /\ done'.handler = "cmd_exclude"
                /\ done'.result = (IF cmd.n < 3 THEN "bad_format"
                                   ELSE IF found = {} THEN "player_not_found"
                                   ELSE "already_excluded")
                /\ done'.sent = <<<<a, done'.result, TRUE>>>>
                /\ UNCHANGED <<players, pending_registrations, notifications>>]_vars

(***************************************************************************)
(* C12.  Store-level exclusion idempotence, as stated: exclude_player for  *)
(* an existing actor that no exclude_player has excluded yet returns True; *)
(* exclude_player for an actor whose row carries the exclusion written by  *)
(* an earlier call returns False and leaves that row, with its reason,     *)
(* date and excluded_by, as it was.                                        *)
(***************************************************************************)
SecondExcludeRefused ==
    (done.handler = "repo.exclude_player") =>
        \A m \in done.player :
            IF m.exclusion_date = NULL
            THEN done.result = "True"
            ELSE /\ done.result = "False"
                 /\ MemberOf(done.target) = {m}

(***************************************************************************)
(* C13.  Exclusion-metadata invariant, as stated: every row of table       *)
(* players has exclusion_date, exclusion_reason and excluded_by all null   *)
(* with status active, or all set with status excluded.                    *)
(***************************************************************************)
ExclusionMetadataAgrees ==
    \A m \in players :
        \/ /\ m.status = STATUS_ACTIVE
           /\ m.exclusion_date = NULL
           /\ m.exclusion_reason = NULL
           /\ m.excluded_by = NULL
        \/ /\ m.status = STATUS_EXCLUDED
           /\ m.exclusion_date # NULL
           /\ m.exclusion_reason # NULL
           /\ m.excluded_by # NULL

(***************************************************************************)
(* C14.  Access control.  When process_approve, process_reject,            *)
(* cmd_exclude, cmd_pending or cmd_list is invoked for an update of an     *)
(* actor other than the leader, it returns at once with the single reply   *)
(* 'access denied'; no row of either table changes, nothing is sent to     *)
(* anybody else and no conversation state changes.                         *)
(***************************************************************************)
AdminHandlers ==
    {"process_approve", "process_reject", "cmd_exclude", "cmd_pending", "cmd_list"}

AccessDenied ==
    [][\A a \in Actors, k \in Actors \cup {0}, h \in AdminHandlers :
        (Dispatched(h, a, k) /\ a # leader_telegram_id) =>
            /\ done'.handler = h
            /\ done'.result = "access_denied"
            /\ done'.sent = <<<<a, "access_denied", TRUE>>>>
            /\ UNCHANGED <<players, pending_registrations, notifications,
                           fsm_state, fsm_data>>]_vars

\* An actor that is not the leader has sent a well-formed /exclude naming
\* an active member and got 'access denied'.
OutsiderExcludeDenied ==
    /\ done.handler = "cmd_exclude"
    /\ done.user # leader_telegram_id
    /\ done.result = "access_denied"
    /\ done.cmd.n = 3
    /\ \E m \in players :
        /\ m.username = normalize_username(done.cmd.handle)
        /\ m.status = STATUS_ACTIVE

(***************************************************************************)
(* C15.  Window property of the rate limiter.  When a message of an actor  *)
(* arrives and rate_limit of the actor's admitted messages are younger     *)
(* than one time_window, the message is denied with a wait of at least one *)
(* second; and a message that arrives exactly that many seconds after a    *)
(* denial, with nothing but denied messages of the actor since the denial, *)
(* is admitted.                                                            *)
(***************************************************************************)
MessageOf(a) == mw'.kind = "message" /\ mw'.user = a

AdmittedWithin(a, now) ==
    {i \in DOMAIN admitted[a] : admitted[a][i] > now - time_window * TicksPerSecond}

WindowProperty ==
    [][\A a \in Actors :
        MessageOf(a) =>
            /\ (Cardinality(AdmittedWithin(a, clock)) >= rate_limit) =>
                    /\ mw'.is_limited /\ ~mw'.handler_called
                    /\ mw'.seconds >= 1
            /\ (clock \in owed[a]) =>
                    /\ ~mw'.is_limited /\ mw'.handler_called]_vars

AdmittedAfterWait ==
    /\ mw.kind = "message" /\ mw.promised
    /\ mw.handler_called /\ ~mw.is_limited
    /\ Len(admitted[mw.user]) > rate_limit

(***************************************************************************)
(* C16.  A denied message has no effect beyond the wait reply: the         *)
(* handler is not called, the call returns None after exactly one reply    *)
(* that tells the wait, no timestamp is added to the sender's list (the    *)
(* list only loses what the cleanup removed), the lists of the other users *)
(* are untouched, and no conversation state, pending registration or       *)
(* player changes.                                                         *)
(***************************************************************************)
TimestampsOf(list) == {list[i] : i \in DOMAIN list}

DeniedHasNoEffect ==
    [][\A a \in Actors :
        (MessageOf(a) /\ mw'.is_limited) =>
            /\ ~mw'.handler_called
            /\ mw'.returned = "None"
            /\ mw'.replies = <<<<a, "wait", mw'.seconds>>>>
            /\ Len(user_timestamps'[a]) <= Len(user_timestamps[a])
            /\ TimestampsOf(user_timestamps'[a]) \subseteq TimestampsOf(user_timestamps[a])
            /\ \A b \in Actors \ {a} : user_timestamps'[b] = user_timestamps[b]
            /\ UNCHANGED <<players, pending_registrations, fsm_state, fsm_data,
                           tasks, notifications>>]_vars

MessageDenied ==
    /\ mw.kind = "message" /\ mw.is_limited
    /\ Len(mw.replies) = 1
    /\ Len(user_timestamps[mw.user]) = rate_limit
    /\ rate_limit = MaxRateLimit

(***************************************************************************)
(* C17.  Admission control comes first: whenever an update of an actor is  *)
(* dispatched to a handler, the rate limiter has been called for that      *)
(* update in the same dispatch, for that actor, and has handed it on.      *)
(***************************************************************************)
LimiterComesFirst ==
    [][\A a \in Actors :
        (/\ events' = events + 1
         /\ \/ done'.user = a
            \/ \E t \in BagToSet(tasks') :
                  CopiesIn(t, tasks') > CopiesIn(t, tasks) /\ t.user = a) =>
            /\ mw'.kind # "none"
            /\ mw'.user = a
            /\ mw'.handler_called]_vars

(***************************************************************************)
(* C19.  Cancel.  A /cancel of an actor whose conversation state is not    *)
(* None sets the state to None, empties the stored data and answers        *)
(* "cancelled"; a /cancel in state None leaves state and data as they are  *)
(* and answers "nothing to cancel".  In both cases no pending              *)
(* registration and no player changes, nobody else is written to, and the  *)
(* conversations of the other actors are untouched.                        *)
(***************************************************************************)
CancelResets ==
    [][\A a \in Actors :
        Dispatched("cmd_cancel", a, 0) =>
            /\ done'.handler = "cmd_cancel" /\ done'.user = a
            /\ UNCHANGED <<players, pending_registrations, notifications>>
            /\ \A b \in Actors \ {a} :
                  fsm_state'[b] = fsm_state[b] /\ fsm_data'[b] = fsm_data[b]
            /\ IF fsm_state[a] = NoState
               THEN /\ done'.result = "nothing_to_cancel"
                    /\ done'.sent = <<<<a, "nothing_to_cancel", TRUE>>>>
                    /\ fsm_state'[a] = NoState
                    /\ fsm_data'[a] = fsm_data[a]
               ELSE /\ done'.result = "cancelled"
                    /\ done'.sent = <<<<a, "cancelled", TRUE>>>>
                    /\ fsm_state'[a] = NoState
                    /\ fsm_data'[a] = <<>>]_vars

CancelledWhileRequestPending ==
    /\ done.handler = "cmd_cancel" /\ done.result = "cancelled"
    /\ fsm_state[done.user] = NoState /\ fsm_data[done.user] = <<>>
    /\ pending_registrations # {}

(***************************************************************************)
(* C20.  Challenge step: a /register that passes the entry guards leaves   *)
(* the actor waiting for the answer to a challenge, not yet for the        *)
(* nickname.                                                               *)
(***************************************************************************)
RegisterPresentsChallenge ==
    (done.handler = "cmd_register" /\ done.result = "started") =>
        fsm_state[done.user] = "waiting_for_captcha"

(***************************************************************************)
(* C18.  Pass-through of the rate limiter: an event that is not a message, *)
(* or a message without a sender, is handed to the handler and the         *)
(* handler's result is returned, whatever the timestamp lists hold; no     *)
(* list changes and the middleware sends no reply.                         *)
(***************************************************************************)
PassThrough ==
    [][(mw'.kind \in {"callback_query", "message_without_user"}) =>
            /\ mw'.handler_called
            /\ mw'.returned = mw'.handler_result
            /\ ~mw'.is_limited
            /\ mw'.replies = <<>>
            /\ user_timestamps' = user_timestamps]_vars

PassedWhileWindowFull ==
    /\ mw.kind = "callback_query"
    /\ mw.handler_called /\ mw.returned = "handler_result"
    /\ Len(cleanup_old_timestamps(user_timestamps[mw.user], time_window, clock)) >= rate_limit

(***************************************************************************)
(* C21.  Nickname step.  When a text is dispatched to process_nickname     *)
(* (the sender is in waiting_for_nickname) and the text without its        *)
(* leading and trailing blanks has 1 to 15 characters, the handler stores  *)
(* exactly that trimmed text as the nickname and goes on to set the state  *)
(* waiting_for_screenshot; its last step sets that state and leaves the    *)
(* stored data alone.  No step of the handler changes a pending            *)
(* registration or a player, and none notifies anybody but the sender.     *)
(***************************************************************************)
\* The texts n such that text is blanks, n, blanks and n neither starts nor
\* ends with a blank.
TrimsOf(text) ==
    {SubSeq(text, p[1], p[2]) :
        p \in {q \in (1..(Len(text) + 1)) \X (0..Len(text)) :
                /\ q[1] <= q[2] + 1
                /\ \A k \in 1..(q[1] - 1) : text[k] = " "
                /\ \A k \in (q[2] + 1)..Len(text) : text[k] = " "
                /\ (q[1] <= q[2]) => (text[q[1]] # " " /\ text[q[2]] # " ")}}

NicknameDispatched(a, text) ==
    /\ events' = events + 1
    /\ \/ done'.handler = "process_nickname" /\ done'.user = a /\ done'.text = text
       \/ \E t \in Started("process_nickname", a, 0) : t.text = text

RepromptOnly(a, kinds) ==
    /\ Len(done'.sent) = 1
    /\ done'.sent[1][1] = a /\ done'.sent[1][2] \in kinds /\ done'.sent[1][3]
    /\ UNCHANGED <<fsm_state, fsm_data, players, pending_registrations, notifications>>

ScreenshotStep(t) == t.handler = "process_screenshot" /\ Stepped(t)

SubmissionSucceeds ==
    [][/\ \A a \in Actors :
            \A t \in Started("process_screenshot", a, 0) :
                (events' = events + 1) =>
                    /\ fsm_state[a] = "waiting_for_screenshot"
                    /\ (fsm_data[a] # <<>>) => (t.pc = "download" /\ t.nickname = fsm_data[a])
       /\ \A t \in Running :
            /\ (ScreenshotStep(t) /\ t.pc = "commit") =>
                  /\ t.nickname # <<>>
                  /\ \E row \in pending_registrations' :
                        /\ {r \in pending_registrations' : r.telegram_id = t.user} = {row}
                        /\ row.nickname = t.nickname
                        /\ Head(row.username) = "@"
                        /\ Tail(row.username) \in {TelegramUsername(t.user),
                                                   <<"user_", IdText(t.user)>>} \ {<<>>}
                        /\ row.screenshot_path = t.local_path
                        /\ t.local_path # <<>>
                  /\ UNCHANGED players
            /\ (ScreenshotStep(t) /\ t.pc = "notify_admin") =>
                  /\ notifications' =
                        notifications (+) SetToBag({<<leader_telegram_id, "new_application", t.user>>})
                  /\ UNCHANGED <<players, pending_registrations>>
            /\ (ScreenshotStep(t) /\ t.pc = "clear") =>
                  /\ done'.handler = "process_screenshot" /\ done'.user = t.user
                  /\ done'.result = "submitted"
                  /\ Cardinality(SentIndexes(done'.sent, leader_telegram_id, "new_application")) = 1
                  /\ Sent(done'.sent, t.user, "application_sent")
                  /\ fsm_state'[t.user] = NoState
                  /\ fsm_data'[t.user] = <<>>
                  /\ UNCHANGED <<players, pending_registrations, notifications>>]_vars

SubmittedAndPending ==
    /\ done.handler = "process_screenshot" /\ done.result = "submitted"
    /\ done.sent = <<<<leader_telegram_id, "new_application", TRUE>>,
                     <<done.user, "application_sent", TRUE>>>>
    /\ \E row \in PendingOf(done.user) :
          row.nickname = done.nickname /\ row.username = <<"@", "user_", IdText(done.user)>>
    /\ NotifiedCount(leader_telegram_id, "new_application", done.user) = 1
    /\ fsm_state[done.user] = NoState /\ fsm_data[done.user] = <<>>

(***************************************************************************)
(* C24.  Notification faults do not roll back.  When the notification of   *)
(* a submission, an approval, a rejection or an exclusion cannot be        *)
(* delivered, the handler has already committed and closed its session,    *)
(* the failing step and every later step of the handler leave players and  *)
(* pending_registrations as committed, and the handler goes on to its      *)
(* success reply to the sender of the update; process_screenshot then      *)
(* still clears the conversation.                                          *)
(***************************************************************************)
NotifyingHandlers == {"process_screenshot", "process_approve", "process_reject", "cmd_exclude"}

SuccessOf(h) ==
    CASE h = "process_screenshot" -> [result |-> "submitted", reply |-> "application_sent"]
      [] h = "process_approve" -> [result |-> "approved", reply |-> "approved"]
      [] h = "process_reject" -> [result |-> "rejected", reply |-> "rejected"]
      [] h = "cmd_exclude" -> [result |-> "excluded", reply |-> "excluded"]

Undelivered(sent) == {i \in DOMAIN sent : ~sent[i][3]}

SessionClosed(t) ==
    t.ins_pending = {} /\ t.del_pending = {} /\ t.ins_player = {} /\ t.upd_player = {}

\* The invocation t continues as t2 or returns in this step, with sent'.
ContinuesWith(t, sent2) ==
    \/ /\ done'.handler = t.handler /\ done'.user = t.user /\ done'.target = t.target
       /\ done'.sent = sent2
    \/ \E t2 \in BagToSet(tasks') :
          /\ CopiesIn(t2, tasks') > CopiesIn(t2, tasks)
          /\ t2.handler = t.handler /\ t2.user = t.user /\ t2.target = t.target
          /\ t2.sent = sent2

SuccessReplied(t, sent2) ==
    \E i \in DOMAIN sent2 : sent2[i] = <<t.user, SuccessOf(t.handler).reply, TRUE>>

NotificationFaultKeepsCommit ==
    [][\A t \in Running :
        (Stepped(t) /\ t.handler \in NotifyingHandlers) =>
            \A sent2 \in {done'.sent} \cup {t2.sent : t2 \in BagToSet(tasks')} :
                (ContinuesWith(t, sent2) /\ Undelivered(sent2) # {}) =>
                    /\ SessionClosed(t)
                    /\ UNCHANGED <<players, pending_registrations>>
                    /\ SuccessReplied(t, sent2)
                    /\ \/ /\ done'.handler = t.handler
                          /\ done'.result = SuccessOf(t.handler).result
                          /\ (t.handler = "process_screenshot") =>
                                (fsm_state'[t.user] = NoState /\ fsm_data'[t.user] = <<>>)
                       \/ /\ t.handler = "process_screenshot"
                          /\ done' = NoDone
                          /\ \E t2 \in BagToSet(tasks') :
                                t2.handler = t.handler /\ t2.user = t.user /\ t2.pc = "clear"]_vars

SubmittedThoughAdminUnreachable ==
    /\ done.handler = "process_screenshot" /\ done.result = "submitted"
    /\ done.sent = <<<<leader_telegram_id, "new_application", FALSE>>,
                     <<done.user, "application_sent", TRUE>>>>
    /\ PendingOf(done.user) # {}
    /\ fsm_state[done.user] = NoState /\ fsm_data[done.user] = <<>>

(***************************************************************************)
(* C25.  Storage faults during submission never strand the actor: when    *)
(* process_screenshot ends because the photo could not be stored or the    *)
(* pending registration could not be saved, the sender has received the    *)
(* failure reply, the sender's conversation is cleared, and the leader has *)
(* not been written to.                                                    *)
(***************************************************************************)
StorageFaultClearsConversation ==
    (/\ done.handler = "process_screenshot"
     /\ done.result \in {"DownloadError", "save_failed"}) =>
        /\ Sent(done.sent, done.user, "save_failed")
        /\ ~Sent(done.sent, leader_telegram_id, "new_application")
        /\ fsm_state[done.user] = NoState
        /\ fsm_data[done.user] = <<>>

(***************************************************************************)
(* C26.  Member records are never deleted: a telegram_id that has a row in *)
(* table players has one after every step of the handlers and of the       *)
(* repository operations; exclusion and status updates change the row and  *)
(* keep it.                                                                *)
(***************************************************************************)
MembersNeverDeleted ==
    [][\A a \in Actors :
        (MemberOf(a) # {}) => ({m \in players' : m.telegram_id = a} # {})]_vars

ExcludedMemberKept ==
    /\ done.handler = "repo.exclude_player" /\ done.result = "True"
    /\ \E m \in MemberOf(done.target) :
          m.status = STATUS_EXCLUDED /\ m.exclusion_date # NULL

(***************************************************************************)
(* C27.  Actors are independent: a step taken for an event of actor a (a   *)
(* call of the rate limiter, or a step of a handler running for an update  *)
(* of a) leaves the timestamp list, the conversation state and the stored  *)
(* data of every other actor as they were.                                 *)
(***************************************************************************)
\* This step belongs to an event of actor a.
EventOf(a) ==
    \/ mw' # NoCall /\ mw'.user = a
    \/ \E t \in Running : Stepped(t) /\ t.user = a
    \/ /\ events' = events + 1
       /\ \/ done'.user = a
          \/ \E t \in BagToSet(tasks') : CopiesIn(t, tasks') > CopiesIn(t, tasks) /\ t.user = a

ActorsIndependent ==
    [][\A a \in Actors :
        EventOf(a) =>
            \A b \in Actors \ {a} :
                /\ user_timestamps'[b] = user_timestamps[b]
                /\ fsm_state'[b] = fsm_state[b]
                /\ fsm_data'[b] = fsm_data[b]]_vars

AdmittedBesideFullWindow ==
    /\ mw.kind = "message" /\ mw.handler_called /\ ~mw.is_limited
    /\ \E a \in Actors \ {mw.user} :
          /\ Len(cleanup_old_timestamps(user_timestamps[a], time_window, clock)) >= rate_limit
          /\ user_timestamps[a] # user_timestamps[mw.user]

(***************************************************************************)
(* C28.  First request and no exceptions: a call of the rate limiter for a *)
(* message never ends with an exception, whatever the limit and the window *)
(* it was constructed with, and a message of a user with an empty          *)
(* timestamp list is admitted.                                             *)
(***************************************************************************)
AdmissionNeverRaises ==
    [][\A a \in Actors :
        MessageOf(a) =>
            /\ mw'.raised = ""
            /\ (user_timestamps[a] = <<>>) =>
                  (mw'.handler_called /\ ~mw'.is_limited)]_vars

(***************************************************************************)
(* C29.  Nickname policy asserted by the tests: a text sent in             *)
(* waiting_for_nickname whose trimmed form is shorter than 3 characters,   *)
(* longer than 20, or holds a character other than a letter, a digit, a    *)
(* blank, "_" or "-", is refused: process_nickname ends with the re-prompt *)
(* and the sender is still in waiting_for_nickname.                        *)
(***************************************************************************)
\* The characters of Texts that the tested policy allows.
TestedNicknameChars == {"R", "W", "x", " ", "_", "-"}

TestedPolicyRejects(n) ==
    \/ Len(n) < 3
    \/ Len(n) > 20
    \/ \E i \in DOMAIN n : n[i] \notin TestedNicknameChars

TestedNicknamePolicy ==
    (/\ done.handler = "process_nickname"
     /\ \A n \in TrimsOf(done.text) : TestedPolicyRejects(n)) =>
        /\ done.result = "invalid_nickname"
        /\ fsm_state[done.user] = "waiting_for_nickname"

(***************************************************************************)
(* C30.  Pruning boundary.  As stated: a check at time now discards the    *)
(* timestamps with ts < now - time_window and keeps the others, the one    *)
(* exactly time_window old included, so a message sent exactly time_window *)
(* after the oldest of rate_limit admitted ones is denied.                 *)
(***************************************************************************)
Cutoff == clock - time_window * TicksPerSecond

PruningKeepsBoundary ==
    [][\A a \in Actors :
        MessageOf(a) =>
            LET kept == SelectSeq(user_timestamps[a], LAMBDA ts : ts >= Cutoff)
            IN  /\ mw'.is_limited = (Len(kept) >= rate_limit)
                /\ mw'.is_limited => (user_timestamps'[a] = kept)
                /\ mw'.handler_called =>
                      (\E later \in {clock, clock + 1} : user_timestamps'[a] = Append(kept, later))]_vars

(***************************************************************************)
(* C30, as the code has it.  A check at time now discards the timestamps   *)
(* with ts <= now - time_window and keeps exactly those with               *)
(* ts > now - time_window, in their order, before deciding; so a message   *)
(* sent exactly time_window after the oldest recorded timestamp is not     *)
(* counted against it, and is admitted.                                    *)
(***************************************************************************)
PruningDropsBoundary ==
    [][\A a \in Actors :
        MessageOf(a) =>
            LET kept == SelectSeq(user_timestamps[a], LAMBDA ts : ts > Cutoff)
            IN  /\ mw'.is_limited = (Len(kept) >= rate_limit)
                /\ mw'.is_limited => (user_timestamps'[a] = kept)
                /\ mw'.handler_called =>
                      (\E later \in {clock, clock + 1} : user_timestamps'[a] = Append(kept, later))
                /\ (\E i \in DOMAIN user_timestamps[a] : user_timestamps[a][i] = Cutoff) =>
                      mw'.handler_called]_vars

AdmittedOneWindowLater ==
    /\ mw.kind = "message" /\ mw.handler_called
    /\ Len(admitted[mw.user]) = 2
    /\ admitted[mw.user][1] = mw.now - time_window * TicksPerSecond
    /\ user_timestamps[mw.user] = <<admitted[mw.user][2]>>
    /\ rate_limit = 1

(***************************************************************************)
(* C31.  retry_after formula.  When a message is denied at a time now that *)
(* is a whole number of seconds, and the oldest timestamp left in the      *)
(* sender's list after the cleanup is a whole number of seconds too, the   *)
(* wait announced is time_window - (now - oldest) + 1 seconds, which lies  *)
(* between 1 and time_window + 1.                                          *)
(***************************************************************************)
WholeSecond(ticks) == ticks % TicksPerSecond = 0

RetryAfterFormula ==
    [][\A a \in Actors :
        (MessageOf(a) /\ mw'.is_limited) =>
            \A oldest \in TimestampsOf(user_timestamps'[a]) :
                (/\ \A ts \in TimestampsOf(user_timestamps'[a]) : oldest <= ts
                 /\ WholeSecond(clock) /\ WholeSecond(oldest)) =>
                    /\ mw'.seconds =
                          time_window - ((clock - oldest) \div TicksPerSecond) + 1
                    /\ 1 <= mw'.seconds
                    /\ mw'.seconds <= time_window + 1]_vars

DeniedAtOnceWithFullWait ==
    /\ mw.kind = "message" /\ mw.is_limited
    /\ WholeSecond(mw.now)
    /\ user_timestamps[mw.user] = <<mw.now>>
    /\ mw.seconds = time_window + 1
    /\ time_window = 2

(***************************************************************************)
(* C32.  Check-and-record is atomic per actor.  With invocations of the    *)
(* middleware for the same actor interleaved at their suspension points    *)
(* (the denial reply, the downstream handler), the timestamp list of an    *)
(* actor never holds more than rate_limit timestamps younger than one      *)
(* time_window, and a message is admitted only when fewer than rate_limit  *)
(* admitted messages of the actor are younger than one time_window.        *)
(***************************************************************************)
AtMostLimitInWindow ==
    [][\A a \in Actors :
        /\ Cardinality({i \in DOMAIN user_timestamps'[a] :
                user_timestamps'[a][i] > clock' - time_window * TicksPerSecond}) <= rate_limit
        /\ (admitted'[a] # admitted[a]) =>
                Cardinality(AdmittedWithin(a, clock)) < rate_limit]_vars

DeniedWhileAdmittedWaits ==
    \E a \in Actors :
        /\ CopiesIn(MiddlewareTask(a, "handler"), tasks) = 1
        /\ CopiesIn(MiddlewareTask(a, "answer"), tasks) = 1
        /\ Len(user_timestamps[a]) = rate_limit
        /\ rate_limit = 1

(***************************************************************************)
(* C33.  The events of one actor take effect one after the other: whatever *)
(* /cancel and nickname messages of an actor are in flight, the actor is   *)
(* never in waiting_for_screenshot without a stored nickname, and when     *)
(* /cancel was the last of the actor's events to complete the actor has no *)
(* conversation state and no stored data.                                  *)
(***************************************************************************)
\* No handler invocation of actor a is suspended.
NothingInFlight(a) == \A t \in Running : t.user # a

NoInterleavedTransitions ==
    \A a \in Actors :
        /\ (fsm_state[a] = "waiting_for_screenshot") => (fsm_data[a] # <<>>)
        /\ (/\ done.handler = "cmd_cancel" /\ done.user = a
            /\ NothingInFlight(a)) =>
                (fsm_state[a] = NoState /\ fsm_data[a] = <<>>)

(***************************************************************************)
(* C34.  Restart and nickname freshness, when the updates of a user are    *)
(* handled one after the other: a /register of a user who is in            *)
(* waiting_for_nickname or waiting_for_screenshot and has no players row   *)
(* and no pending registration ends with the user in waiting_for_nickname; *)
(* and every pending registration that is committed carries the nickname   *)
(* that process_nickname accepted last for that user since the user's last *)
(* started /register, /cancel or submission.                               *)
(***************************************************************************)
RestartAndFreshNickname ==
    [][\A a \in Actors :
        /\ (/\ done'.handler = "cmd_register" /\ done'.user = a
            /\ fsm_state[a] \in {"waiting_for_nickname", "waiting_for_screenshot"}
            /\ MemberOf(a) = {} /\ PendingOf(a) = {}) =>
                /\ done'.result = "started"
                /\ fsm_state'[a] = "waiting_for_nickname"
        /\ \A r \in pending_registrations' \ pending_registrations :
              (r.telegram_id = a) =>
                  /\ r.nickname = accepted_nickname[a]
                  /\ r.nickname # <<>>]_vars

SubmittedAcceptedNickname ==
    /\ done.handler = "process_screenshot" /\ done.result = "submitted"
    /\ \E r \in PendingOf(done.user) : r.nickname = done.nickname /\ r.nickname = <<"W">>

\* A /register in the middle of the flow has left the nickname entered before
\* it in the storage.
RestartedWithStoredNickname ==
    /\ done.handler = "cmd_register" /\ done.result = "started"
    /\ fsm_state[done.user] = "waiting_for_nickname"
    /\ fsm_data[done.user] # <<>>

(***************************************************************************)
(* C35.  Notify only after commit.  A step that writes to another chat     *)
(* about actor a (the leader about a's submission; a about an approval, a  *)
(* rejection or an exclusion) is a step of a handler invocation whose      *)
(* session is closed, and the committed tables show the change: the        *)
(* submitted row is in pending_registrations unless a decision on a's      *)
(* request has removed it since; after a decision a has no pending row     *)
(* unless a has submitted again, an approved a has a players row, an       *)
(* excluded a has the status excluded.  A notifying handler that returns   *)
(* with anything but its success has written to no other chat.             *)
(***************************************************************************)
NoticeKinds == {"new_application", "approved_notice", "rejected_notice", "excluded_notice"}

\* This step writes to chat `to` a notice of this kind about actor a.
NotifiedNow(to, kind, a) ==
    CopiesIn(<<to, kind, a>>, notifications') > CopiesIn(<<to, kind, a>>, notifications)

\* Submissions of actor a committed so far: those the leader was written to
\* about, and those whose handler has yet to write.
CommittedSubmissions(a) ==
    NotifiedCount(leader_telegram_id, "new_application", a)
        + BagCardinality([t \in {u \in Running : /\ u.handler = "process_screenshot"
                                                  /\ u.user = a
                                                  /\ u.pc = "notify_admin"}
                            |-> CopiesIn(t, tasks)])

CommittedBefore(t, kind, a) ==
    CASE kind = "new_application" ->
            \/ \E r \in PendingOf(a) :
                  r.nickname = t.nickname /\ r.screenshot_path = t.local_path
            \/ Decided(a)
      [] kind = "approved_notice" ->
            /\ MemberOf(a) # {}
            /\ PendingOf(a) = {} \/ CommittedSubmissions(a) > 1
      [] kind = "rejected_notice" ->
            PendingOf(a) = {} \/ CommittedSubmissions(a) > 1
      [] kind = "excluded_notice" ->
            \E m \in MemberOf(a) : m.status = STATUS_EXCLUDED

NotifyAfterCommit ==
    [][/\ \A to \in Actors, kind \in NoticeKinds, a \in Actors :
            NotifiedNow(to, kind, a) =>
                \E t \in Running :
                    /\ Stepped(t)
                    /\ SessionClosed(t)
                    /\ CommittedBefore(t, kind, a)
       /\ (/\ done'.handler \in NotifyingHandlers
           /\ done'.result # SuccessOf(done'.handler).result) =>
                /\ notifications' = notifications
                /\ \A i \in DOMAIN done'.sent : done'.sent[i][2] \notin NoticeKinds]_vars

\* The leader is written to about a submission whose row is committed.
LeaderNotifiedOfCommittedRow ==
    /\ done.handler = "process_screenshot" /\ done.result = "submitted"
    /\ NotifiedCount(leader_telegram_id, "new_application", done.user) = 1
    /\ PendingOf(done.user) # {}
    /\ ~Decided(done.user)

(***************************************************************************)
(* C36.  Approve is all-or-nothing on failure: the step in which           *)
(* process_approve ends with the error of add_player / remove_pending      *)
(* changes neither table and writes to no other chat; the target has no    *)
(* players row, its pending registration is still there (unless a          *)
(* rejection has removed it meanwhile), the administrator has the error    *)
(* reply and the applicant has not been written to.                        *)
(***************************************************************************)
ApproveFailureKeepsBoth ==
    [][(done'.handler = "process_approve" /\ done'.result = "approve_error") =>
            /\ players' = players
            /\ pending_registrations' = pending_registrations
            /\ notifications' = notifications
            /\ {m \in players' : m.telegram_id = done'.target} = {}
            /\ \/ {r \in pending_registrations' : r.telegram_id = done'.target} # {}
               \/ Decided(done'.target)
            /\ Sent(done'.sent, done'.user, "approve_error")
            /\ ~Sent(done'.sent, done'.target, "approved_notice")]_vars

FailedApproveLeavesRequest ==
    /\ done.handler = "process_approve" /\ done.result = "approve_error"
    /\ PendingOf(done.target) # {}
    /\ MemberOf(done.target) = {}
    /\ ~Decided(done.target)

Excluded(a) == \E m \in MemberOf(a) : m.status = STATUS_EXCLUDED

ExclusionAbsorbing ==
    [][\A a \in Actors :
        Excluded(a) =>
            /\ {m \in players' : m.telegram_id = a} # {}
            /\ \A m \in players' : (m.telegram_id = a) => (m.status = STATUS_EXCLUDED)
            /\ {r \in pending_registrations' : r.telegram_id = a} \subseteq PendingOf(a)]_vars

\* An excluded actor has sent /register and is not in the registration flow.
ExcludedRegisterRefused ==
    /\ done.handler = "cmd_register"
    /\ Excluded(done.user)
    /\ done.result # "started"
    /\ fsm_state[done.user] = NoState
    /\ PendingOf(done.user) = {}

(***************************************************************************)
(* C39.  Ordinary-user events never touch the roster: a step of            *)
(* cmd_register, process_nickname, process_screenshot, invalid_screenshot  *)
(* or cmd_cancel leaves table players as it was; a players row of a new    *)
(* telegram_id appears only in a step of process_approve, a row changes    *)
(* only in a step of cmd_exclude, no row disappears; and an actor's        *)
(* pending registration disappears only in a step of a process_approve or  *)
(* process_reject for that actor.                                          *)
(***************************************************************************)
UserHandlers ==
    {"cmd_register", "process_nickname", "process_screenshot", "invalid_screenshot",
     "cmd_cancel"}

\* This transition is a step of a handler in H: its first block, run at the
\* dispatch of the update, or a later one.
StepOf(H) ==
    \/ \E t \in Running : Stepped(t) /\ t.handler \in H
    \/ /\ events' = events + 1
       /\ \/ done'.handler \in H
          \/ \E t \in BagToSet(tasks') :
                CopiesIn(t, tasks') > CopiesIn(t, tasks) /\ t.handler \in H

UserEventsLeaveRoster ==
    [][/\ StepOf(UserHandlers) => (players' = players)
       /\ \A a \in Actors :
            /\ (MemberOf(a) = {} /\ {m \in players' : m.telegram_id = a} # {}) =>
                    \E t \in Running :
                        Stepped(t) /\ t.handler = "process_approve" /\ t.target = a
            /\ (MemberOf(a) # {} /\ {m \in players' : m.telegram_id = a} # MemberOf(a)) =>
                    /\ {m \in players' : m.telegram_id = a} # {}
                    /\ \E t \in Running : Stepped(t) /\ t.handler = "cmd_exclude"
            /\ (PendingOf(a) # {} /\ {r \in pending_registrations' : r.telegram_id = a} = {}) =>
                    \E t \in Running :
                        /\ Stepped(t)
                        /\ t.handler \in {"process_approve", "process_reject"}
                        /\ t.target = a]_vars

\* An actor has cancelled while its request is pending beside a roster.
CancelledBesideRoster ==
    /\ done.handler = "cmd_cancel"
    /\ PendingOf(done.user) # {}
    /\ players # {}

====
